---- MODULE Spec2Model ----
(***************************************************************************)
(* Model of the obsidian-teleporter file-transfer engine (FileMover), the  *)
(* operation tracker and the plugin entry point that drives them.          *)
(*                                                                         *)
(* A path is a sequence of segments; a segment is a record [base, ext]     *)
(* (a directory name has ext = ""), so that path.dirname, path.basename    *)
(* and path.extname are computed on the path and not looked up.  The file  *)
(* system is a function from the paths that exist to their nodes.  Every   *)
(* awaited filesystem call of moveFile and rollback is one action: the     *)
(* call completes (or fails) and the synchronous code up to the next       *)
(* await runs with it.                                                     *)
(***************************************************************************)
EXTENDS Integers, Sequences, FiniteSets, TLC

\* Bounds of the model.
MaxCalls == 2
MaxFaults == 1
MaxCancels == 1

\* addRecentDestination is called at most MaxNow times, at most MaxReadds of
\* them for a destination that is in the list already.
MaxNow == 23

MaxReadds == 2

Calls == 1..MaxCalls

VARIABLES
  fs,                  \* the file system
  activeOperations,    \* FileMover.activeOperations, in insertion order
  call,                \* the moveFile calls
  faults,              \* injected filesystem failures so far
  cancels,             \* cancelOperation calls so far
  batch,               \* the moveFiles call
  sweep,               \* the cleanupOldBackups call
  ret,                 \* what the last synchronous call returned
  vaultCache,          \* VaultManager.vaultCache
  recentDestinations,  \* settings.recentDestinations
  now                  \* Date.now()

vars == <<fs, activeOperations, call, faults, cancels, batch, sweep, ret,
          vaultCache, recentDestinations, now>>

\* What a step of one moveFile call never touches.
others == <<batch, sweep, ret, vaultCache, recentDestinations, now>>

----------------------------------------------------------------------------
\* Paths

N(b, e) == [base |-> b, ext |-> e]

\* The empty segment: what stands before the leading "/" of "/Inbox".
Empty == N("", "")

NoPath == <<>>

normalizePath(p) == SelectSeq(p, LAMBDA s : s # Empty)

path_join(a, b) == normalizePath(a \o b)

path_dirname(p) == SubSeq(p, 1, Len(p) - 1)

path_basename(p) == p[Len(p)]

path_extname(p) == p[Len(p)].ext

\* The vault of the running application, the destination vault and
\* os.tmpdir()/obsidian-teleporter.
sourceVaultPath == <<N("A", "")>>

targetVault == [id |-> "vault_B", path |-> <<N("B", "")>>]

tempDir == <<N("tmp", "")>>

\* The files of the source vault that are moved (TFile.path).
Draft == <<N("Notes", ""), N("Draft", ".md")>>

RootDraft == <<N("Draft", ".md")>>

Files == {Draft, RootDraft}

\* The folders the folder selector hands over: "/" and "/Inbox".
Inbox == N("Inbox", "")

TargetFolders == {<<Empty>>, <<Empty, Inbox>>}

ConflictStrategies == {"skip", "overwrite", "rename", "ask"}

MoveOptions ==
  [deleteOriginal : BOOLEAN, preserveMetadata : BOOLEAN,
   conflictStrategy : ConflictStrategies]

----------------------------------------------------------------------------
\* The file system

Dir == [kind |-> "dir", data |-> ""]

File(d) == [kind |-> "file", data |-> d]

existsSync(f, p) == p \in DOMAIN f

IsFile(f, p) == p \in DOMAIN f /\ f[p].kind = "file"

IsDir(f, p) == p \in DOMAIN f /\ f[p].kind = "dir"

Put(f, p, n) == (p :> n) @@ f

Remove(f, p) == [q \in DOMAIN f \ {p} |-> f[q]]

Prefixes(p) == {SubSeq(p, 1, k) : k \in 1..Len(p)}

\* fs.readFile, fs.createReadStream: the path must be a readable file.
ReadOk(f, p) == IsFile(f, p)

\* fs.stat
StatOk(f, p) == existsSync(f, p)

\* fs.copyFile(src, dst): overwrites dst; dst's directory must exist.
CopyOk(f, src, dst) ==
  /\ IsFile(f, src)
  /\ IsDir(f, path_dirname(dst))
  /\ ~IsDir(f, dst)

\* Variant of copyFile: the source is renamed, not copied.
copyFile_Move(f, src, dst) == Remove(Put(f, dst, f[src]), src)

copyFile(f, src, dst) == Put(f, dst, f[src])

\* fs.mkdir(p, {recursive: true}): fails when a file is in the way.
MkdirOk(f, p) == \A q \in Prefixes(p) : ~IsFile(f, q)

mkdir(f, p) == [q \in Prefixes(p) \ DOMAIN f |-> Dir] @@ f

\* fs.writeFile(p, content): creates or truncates the file.
WriteOk(f, p) == IsDir(f, path_dirname(p)) /\ ~IsDir(f, p)

writeFile(f, p, content) == Put(f, p, File(content))

\* fs.utimes
UtimesOk(f, p) == existsSync(f, p)

\* fs.unlink(p) as deleteFile uses it: ENOENT counts as done, a directory
\* is never unlinked (EISDIR / EPERM).
UnlinkOk(f, p) == ~IsDir(f, p)

unlink(f, p) == IF existsSync(f, p) THEN Remove(f, p) ELSE f

\* crypto.createHash("sha256") over the file's bytes.
sha256(data) == <<"sha256", data>>

----------------------------------------------------------------------------
\* VaultManager

getFilePath(vault, relativePath) == path_join(vault.path, relativePath)

fileExists(f, vault, relativePath) == existsSync(f, getFilePath(vault, relativePath))

\* Variant of NextFree: the first candidate is taken without a look at the
\* vault.
NextFree_First(f, vault, dir, baseName, ext, counter) ==
  path_join(dir, <<N(baseName \o " " \o ToString(counter), ext)>>)

RECURSIVE NextFree(_, _, _, _, _, _)
NextFree(f, vault, dir, baseName, ext, counter) ==
  LET newName == N(baseName \o " " \o ToString(counter), ext)
      newPath == path_join(dir, <<newName>>)
  IN  IF fileExists(f, vault, newPath)
        THEN NextFree(f, vault, dir, baseName, ext, counter + 1)
        ELSE newPath

\* Variant of getAvailableFilename: no early return for a free path.
getAvailableFilename_AlwaysSuffix(f, vault, filePath) ==
  NextFree(f, vault, path_dirname(filePath),
           path_basename(filePath).base, path_extname(filePath), 1)

\* Variant of getAvailableFilename: the counter starts at 2.
getAvailableFilename_FromTwo(f, vault, filePath) ==
  IF ~fileExists(f, vault, filePath)
    THEN filePath
    ELSE NextFree(f, vault, path_dirname(filePath),
                  path_basename(filePath).base, path_extname(filePath), 2)

\* Variant of getAvailableFilename: the path is returned as it came.
getAvailableFilename_Same(f, vault, filePath) == filePath

getAvailableFilename(f, vault, filePath) ==
  IF ~fileExists(f, vault, filePath)
    THEN filePath
    ELSE NextFree(f, vault, path_dirname(filePath),
                  path_basename(filePath).base, path_extname(filePath), 1)

----------------------------------------------------------------------------
\* FileMover: one record per moveFile call.  The index of the call stands for
\* its operationId (generateOperationId is unique per call).

NULL == "null"

IdleCall ==
  [id |-> 0, pc |-> "idle", via |-> "", file |-> NoPath, targetFolderPath |-> NoPath,
   options |-> [deleteOriginal |-> FALSE, preserveMetadata |-> FALSE,
                conflictStrategy |-> "skip"],
   operation |-> [sourceFile |-> NoPath, targetPath |-> NoPath,
                  status |-> "", error |-> ""],
   targetRelativePath |-> NoPath, resolvedPath |-> NoPath,
   fileContent |-> "", fileStats |-> NULL, backupPath |-> NoPath,
   sourceHash |-> NoPath, verified |-> "", errorMessage |-> "",
   rbTargetFullPath |-> NoPath,
   result |-> [success |-> FALSE, newPath |-> NoPath, error |-> ""],
   \* what the call has seen and done so far
   orig |-> "", conflict |-> FALSE, ioFailed |-> FALSE, failedAt |-> "",
   wrote |-> FALSE, sourceDeleted |-> FALSE, lostAtFail |-> FALSE,
   rolledBack |-> FALSE, rbDeleteFailed |-> FALSE, hashesMatched |-> FALSE,
   mismatch |-> FALSE, cancelled |-> FALSE, failed |-> {},
   \* the onProgress argument: "none" (left out), or a callback that
   \* "returns" or one that "throws"
   onProgress |-> "returns",
   \* what the progress callback has been handed, in order
   progress |-> <<>>]

\* Variant of reportProgress: the callback changes what is written.
reportProgress_Alters(r, stage, percentage) ==
  IF r.onProgress = "none" THEN r
  ELSE [r EXCEPT !.fileContent = "",
                 !.progress = Append(@, [stage |-> stage, percentage |-> percentage])]

\* reportProgress: if (callback) the callback is handed
\* {stage, percentage, message}; the message is fixed by the two.
reportProgress(r, stage, percentage) ==
  IF r.onProgress = "none" THEN r
  ELSE [r EXCEPT !.progress = Append(@, [stage |-> stage, percentage |-> percentage])]

ReturnedCall == [IdleCall EXCEPT !.pc = "returned"]

SourcePath(r) == path_join(sourceVaultPath, r.file)

TargetFullPath(r) == path_join(targetVault.path, r.targetRelativePath)

\* createBackup and rollback both build
\* tempDir/teleporter_backup_<operationId><extname>.
BackupPathOf(c, filePath) ==
  path_join(tempDir,
            <<N("teleporter_backup_" \o ToString(c), path_extname(filePath))>>)

\* Variants of RollbackTargetFullPath: the source vault taken for the target
\* vault, and the resolved target file taken for the target folder.
RollbackTargetFullPath_Source(r) == path_join(sourceVaultPath, r.operation.sourceFile)

RollbackTargetFullPath_File(r) == TargetFullPath(r)

\* rollback: path.join(operation.targetVault.path, operation.targetPath)
RollbackTargetFullPath(r) == path_join(targetVault.path, r.operation.targetPath)

Content(f, p) == IF IsFile(f, p) THEN f[p].data ELSE ""

isOperationActive(filePath) ==
  \E i \in 1..Len(activeOperations) :
    call[activeOperations[i]].operation.sourceFile = filePath

\* Variant of Untrack: the record stays in the index.
Untrack_Keep(ops, c) == ops

\* activeOperations.delete(operationId)
Untrack(ops, c) == SelectSeq(ops, LAMBDA id : id # c)

\* Variant of handleConflict: skip answers like overwrite.
handleConflict_SkipOverwrites(f, targetPath, strategy) ==
  IF strategy \in {"skip", "overwrite"} THEN targetPath
  ELSE getAvailableFilename(f, targetVault, targetPath)

\* Variant of handleConflict: ask answers like overwrite.
handleConflict_AskOverwrites(f, targetPath, strategy) ==
  CASE strategy = "skip" -> NoPath
    [] strategy \in {"overwrite", "ask"} -> targetPath
    [] strategy = "rename" -> getAvailableFilename(f, targetVault, targetPath)

handleConflict(f, targetPath, strategy) ==
  CASE strategy = "skip" -> NoPath
    [] strategy = "overwrite" -> targetPath
    [] strategy = "rename" -> getAvailableFilename(f, targetVault, targetPath)
    [] strategy = "ask" -> getAvailableFilename(f, targetVault, targetPath)

\* An awaited filesystem call fails when the file system refuses it, or
\* when a failure is injected (at most MaxFaults per run).
Outcome(possible, fail) ==
  /\ fail => possible /\ faults < MaxFaults
  /\ faults' = IF fail THEN faults + 1 ELSE faults
  /\ cancels' = cancels

Ok(possible, fail) == possible /\ ~fail

----------------------------------------------------------------------------
\* rollback, from its first statement to its first await, on the file system f.

RollbackBackupPart(c, r, f) ==
  LET backupPath == BackupPathOf(c, r.operation.sourceFile)
  IN  IF existsSync(f, backupPath)
        THEN IF ~existsSync(f, SourcePath(r))
               THEN [r EXCEPT !.pc = "rbRestore"]
               ELSE [r EXCEPT !.pc = "rbDeleteBackup"]
        ELSE [r EXCEPT !.pc = "rbReturn"]

RollbackStart(c, r, f) ==
  LET targetFullPath == RollbackTargetFullPath(r)
  IN  IF r.operation.targetPath # NoPath /\ existsSync(f, targetFullPath)
        THEN [r EXCEPT !.pc = "rbDeleteTarget",
                       !.rbTargetFullPath = targetFullPath]
        ELSE RollbackBackupPart(c, r, f)

\* The catch block of moveFile: mark the operation failed and start rollback.
Catch(c, r, f, message) ==
  RollbackStart(c,
    [r EXCEPT !.operation.status = "failed", !.operation.error = message,
              !.errorMessage = message, !.failedAt = r.pc, !.rolledBack = TRUE,
              !.lostAtFail = existsSync(f, BackupPathOf(c, r.file))
                             /\ ~existsSync(f, SourcePath(r))],
    f)

\* Variant of Complete: the last stage is not reported.
Complete_NoReport(r) ==
  [r EXCEPT !.pc = "done", !.operation.status = "success",
            !.result = [success |-> TRUE, newPath |-> r.targetRelativePath,
                        error |-> ""]]

\* Variant of Complete: the call is suspended between the status update
\* and the finally block.
Complete_BeforeFinally(r) ==
  [reportProgress(r, "complete", 100)
     EXCEPT !.pc = "finally", !.operation.status = "success",
            !.result = [success |-> TRUE, newPath |-> r.targetRelativePath,
                        error |-> ""]]

\* Stage 6 and the finally block: the success return.
Complete(r) ==
  [reportProgress(r, "complete", 100)
     EXCEPT !.pc = "done", !.operation.status = "success",
            !.result = [success |-> TRUE, newPath |-> r.targetRelativePath,
                        error |-> ""]]

----------------------------------------------------------------------------
\* moveFile

\* Variant of Finish: no finally block.
Finish_NoFinally(c, r) ==
  /\ call' = [call EXCEPT ![c] = r]
  /\ activeOperations' = activeOperations
  /\ UNCHANGED others

\* The call's record after a step; the finally block removes the operation
\* from the index when the step was the last one, whether the call returns
\* a MoveResult ("done") or its promise is rejected ("rejected").
Finish(c, r) ==
  /\ call' = [call EXCEPT ![c] = r]
  /\ activeOperations' =
       IF r.pc \in {"done", "rejected"}
         THEN Untrack(activeOperations, c) ELSE activeOperations
  /\ UNCHANGED others

\* moveFile up to its first await: register the operation, build the paths,
\* check for a conflict.
StartedOn(f, c, via, file, targetFolderPath, options, onProgress) ==
  LET targetFileName == path_basename(file)
      targetRelativePath ==
        normalizePath(path_join(targetFolderPath, <<targetFileName>>))
      conflict == fileExists(f, targetVault, targetRelativePath)
      started == [IdleCall EXCEPT
              !.id = c, !.via = via, !.file = file,
              !.targetFolderPath = targetFolderPath, !.options = options,
              !.onProgress = onProgress,
              !.operation = [sourceFile |-> file,
                             targetPath |-> targetFolderPath,
                             status |-> "pending", error |-> ""],
              !.orig = Content(f, path_join(sourceVaultPath, file))]
      r == [reportProgress(started, "preparing", 0) EXCEPT
              !.targetRelativePath = targetRelativePath,
              !.conflict = conflict]
  IN  IF onProgress = "throws"
        THEN Catch(c, [reportProgress(started, "preparing", 0) EXCEPT !.pc = "preparing"],
                   f, "callback error")
      ELSE IF conflict
        THEN [r EXCEPT !.pc = "handleConflict",
                       !.resolvedPath =
                         handleConflict(f, targetRelativePath,
                                        options.conflictStrategy)]
        ELSE [reportProgress(r, "reading", 20) EXCEPT !.pc = "readFileContent"]

\* The callers of the plugin: performFileMove hands moveFile a callback that
\* sets the text of a notice, moveFiles hands it none.
StartedCall(c, via, file, targetFolderPath, options) ==
  StartedOn(fs, c, via, file, targetFolderPath, options,
            IF via = "moveFiles" THEN "none" ELSE "returns")

\* The slot of the next call: the first one not used yet.
NextCall(c) ==
  /\ call[c].pc = "idle"
  /\ \A d \in Calls : d < c => call[d].pc # "idle"

MoveFileStart(c, via, file, targetFolderPath, options) ==
  /\ NextCall(c)
  /\ activeOperations' = Append(activeOperations, c)
  /\ call' = [call EXCEPT ![c] =
                StartedCall(c, via, file, targetFolderPath, options)]
  /\ UNCHANGED <<fs, faults, cancels>>
  /\ UNCHANGED others

\* One moveFile call at a time: the caller awaits each call.
moveFile(c) ==
  /\ \A d \in Calls : call[d].pc \in {"idle", "returned"}
  /\ \E file \in Files, targetFolderPath \in TargetFolders,
        options \in MoveOptions :
       MoveFileStart(c, "moveFile", file, targetFolderPath, options)

\* await this.handleConflict(...)
AwaitHandleConflict(c) ==
  LET r == call[c]
  IN  /\ r.pc = "handleConflict"
      /\ IF r.resolvedPath = NoPath
           THEN Finish(c, Catch(c, r, fs, "File move cancelled due to conflict"))
           ELSE Finish(c, [reportProgress(r, "reading", 20)
                             EXCEPT !.pc = "readFileContent",
                                    !.targetRelativePath = r.resolvedPath])
      /\ UNCHANGED <<fs, faults, cancels>>

readFileContent(c) ==
  LET r == call[c]
      possible == ReadOk(fs, SourcePath(r))
  IN  /\ r.pc = "readFileContent"
      /\ \E fail \in BOOLEAN :
           /\ Outcome(possible, fail)
           /\ IF Ok(possible, fail)
                THEN Finish(c, [r EXCEPT !.pc = "getFileStats",
                                         !.fileContent = fs[SourcePath(r)].data])
                ELSE Finish(c, Catch(c, [r EXCEPT !.ioFailed = TRUE, !.failed = @ \cup {"readFile"}], fs,
                                     "Failed to read file"))
      /\ UNCHANGED fs

\* getFileStats resolves null on an error.
getFileStats(c) ==
  LET r == call[c]
      possible == StatOk(fs, SourcePath(r))
  IN  /\ r.pc = "getFileStats"
      /\ \E fail \in BOOLEAN :
           /\ Outcome(possible, fail)
           /\ Finish(c,
                [(IF r.options.deleteOriginal THEN r
                  ELSE reportProgress(r, "writing", 40))
                   EXCEPT !.pc = IF r.options.deleteOriginal
                                   THEN "createBackup" ELSE "ensureDirectory",
                          !.fileStats = IF Ok(possible, fail) THEN "stats" ELSE NULL,
                          !.ioFailed = ~Ok(possible, fail),
                          !.failed = IF Ok(possible, fail) THEN @ ELSE @ \cup {"stat"}])
      /\ UNCHANGED fs

createBackup(c) ==
  LET r == call[c]
      backupPath == BackupPathOf(c, SourcePath(r))
      possible == CopyOk(fs, SourcePath(r), backupPath)
  IN  /\ r.pc = "createBackup"
      /\ \E fail \in BOOLEAN :
           /\ Outcome(possible, fail)
           /\ IF Ok(possible, fail)
                THEN /\ fs' = copyFile(fs, SourcePath(r), backupPath)
                     /\ Finish(c, [reportProgress(
                                      reportProgress(r, "reading", 30), "writing", 40)
                                     EXCEPT !.pc = "ensureDirectory",
                                            !.backupPath = backupPath])
                ELSE /\ fs' = fs
                     /\ Finish(c, Catch(c, [r EXCEPT !.ioFailed = TRUE, !.failed = @ \cup {"copyFile"}], fs,
                                        "Failed to create backup"))

ensureDirectory(c) ==
  LET r == call[c]
      targetDir == path_dirname(TargetFullPath(r))
      possible == MkdirOk(fs, targetDir)
  IN  /\ r.pc = "ensureDirectory"
      /\ \E fail \in BOOLEAN :
           /\ Outcome(possible, fail)
           /\ IF Ok(possible, fail)
                THEN /\ fs' = mkdir(fs, targetDir)
                     /\ Finish(c, [r EXCEPT !.pc = "writeFileContent"])
                ELSE /\ fs' = fs
                     /\ Finish(c, Catch(c, [r EXCEPT !.ioFailed = TRUE, !.failed = @ \cup {"mkdir"}], fs,
                                        "Failed to create directory"))

writeFileContent(c) ==
  LET r == call[c]
      possible == WriteOk(fs, TargetFullPath(r))
      written == writeFile(fs, TargetFullPath(r), r.fileContent)
  IN  /\ r.pc = "writeFileContent"
      /\ \E fail \in BOOLEAN :
           /\ Outcome(possible, fail)
           /\ IF Ok(possible, fail)
                THEN /\ fs' = written
                     /\ Finish(c,
                          IF r.options.preserveMetadata /\ r.fileStats # NULL
                            THEN [reportProgress(r, "writing", 60)
                                    EXCEPT !.wrote = TRUE,
                                           !.pc = "preserveFileMetadata"]
                            ELSE [reportProgress(
                                    reportProgress(r, "writing", 60), "verifying", 80)
                                    EXCEPT !.wrote = TRUE, !.pc = "hashSource"])
                ELSE /\ fs' = fs
                     /\ Finish(c, Catch(c, [r EXCEPT !.ioFailed = TRUE, !.failed = @ \cup {"writeFile"}], fs,
                                        "Failed to write file"))

\* Variant of preserveFileMetadata: an error of fs.utimes rejects.
preserveFileMetadata_Rejects(c) ==
  LET r == call[c]
      possible == UtimesOk(fs, TargetFullPath(r))
  IN  /\ r.pc = "preserveFileMetadata"
      /\ \E fail \in BOOLEAN :
           /\ Outcome(possible, fail)
           /\ IF Ok(possible, fail)
                THEN Finish(c, [reportProgress(
                                  reportProgress(r, "writing", 70), "verifying", 80)
                                 EXCEPT !.pc = "hashSource"])
                ELSE Finish(c, Catch(c, [r EXCEPT !.ioFailed = TRUE,
                                                  !.failed = @ \cup {"utimes"}],
                                     fs, "Could not preserve file metadata"))
      /\ UNCHANGED fs

\* preserveFileMetadata resolves whether fs.utimes worked or not.
preserveFileMetadata(c) ==
  LET r == call[c]
      possible == UtimesOk(fs, TargetFullPath(r))
  IN  /\ r.pc = "preserveFileMetadata"
      /\ \E fail \in BOOLEAN :
           /\ Outcome(possible, fail)
           /\ Finish(c, [reportProgress(
                            reportProgress(r, "writing", 70), "verifying", 80)
                           EXCEPT !.pc = "hashSource",
                                  !.ioFailed = @ \/ ~Ok(possible, fail),
                                  !.failed = IF Ok(possible, fail) THEN @
                                             ELSE @ \cup {"utimes"}])
      /\ UNCHANGED fs

\* Variant of VerificationPassed: an unreadable file or a mismatch passes.
VerificationPassed_Always(readable, sourceHash, targetHash) == TRUE

\* verifyFileCopy's result: both hashes were computed and are equal.
VerificationPassed(readable, sourceHash, targetHash) ==
  readable /\ sourceHash = targetHash

\* Variants of AfterVerify: stage 5 never runs; stage 5 runs whatever
\* options.deleteOriginal says.
AfterVerify_NoCleaning(r, f, verified) ==
  IF ~verified
    THEN Catch(r.id, [r EXCEPT !.verified = "false"], f,
               "File verification failed - content mismatch")
    ELSE Complete([r EXCEPT !.verified = "true"])

AfterVerify_AlwaysDelete(r, f, verified) ==
  IF ~verified
    THEN Catch(r.id, [r EXCEPT !.verified = "false"], f,
               "File verification failed - content mismatch")
    ELSE [r EXCEPT !.verified = "true", !.pc = "deleteSource"]

\* moveFile after verifyFileCopy has answered: throw on a mismatch, else go
\* on to the cleaning stage or to the success return.
AfterVerify(r, f, verified) ==
  IF ~verified
    THEN Catch(r.id, [r EXCEPT !.verified = "false"], f,
               "File verification failed - content mismatch")
    ELSE IF r.options.deleteOriginal
           THEN [reportProgress(r, "cleaning", 90)
                   EXCEPT !.verified = "true", !.pc = "deleteSource"]
           ELSE Complete([r EXCEPT !.verified = "true"])

\* verifyFileCopy: calculateFileHash(sourcePath); an error makes it false.
calculateSourceHash(c) ==
  LET r == call[c]
      possible == ReadOk(fs, SourcePath(r))
  IN  /\ r.pc = "hashSource"
      /\ \E fail \in BOOLEAN :
           /\ Outcome(possible, fail)
           /\ IF Ok(possible, fail)
                THEN Finish(c, [r EXCEPT !.pc = "hashTarget",
                                         !.sourceHash = sha256(fs[SourcePath(r)].data)])
                ELSE Finish(c, AfterVerify([r EXCEPT !.ioFailed = TRUE, !.failed = @ \cup {"hash"}], fs,
                                           VerificationPassed(FALSE, NoPath, NoPath)))
      /\ UNCHANGED fs

\* verifyFileCopy: calculateFileHash(targetPath) and the comparison.
calculateTargetHash(c) ==
  LET r == call[c]
      possible == ReadOk(fs, TargetFullPath(r))
  IN  /\ r.pc = "hashTarget"
      /\ \E fail \in BOOLEAN :
           LET readable == Ok(possible, fail)
               targetHash == IF readable THEN sha256(fs[TargetFullPath(r)].data)
                             ELSE NoPath
           IN  /\ Outcome(possible, fail)
               /\ Finish(c, AfterVerify(
                      [r EXCEPT !.ioFailed = @ \/ ~readable,
                                !.failed = IF readable THEN @ ELSE @ \cup {"hash"},
                                !.hashesMatched = readable /\ r.sourceHash = targetHash,
                                !.mismatch = readable /\ r.sourceHash # targetHash],
                      fs, VerificationPassed(readable, r.sourceHash, targetHash)))
      /\ UNCHANGED fs

\* Stage 5: deleteFile(sourcePath)
deleteSource(c) ==
  LET r == call[c]
      possible == UnlinkOk(fs, SourcePath(r))
  IN  /\ r.pc = "deleteSource"
      /\ \E fail \in BOOLEAN :
           /\ Outcome(possible, fail)
           /\ IF Ok(possible, fail)
                THEN /\ fs' = unlink(fs, SourcePath(r))
                     /\ Finish(c, IF r.backupPath # NoPath
                                    THEN [r EXCEPT !.pc = "deleteBackup",
                                                   !.sourceDeleted = TRUE]
                                    ELSE Complete([r EXCEPT !.sourceDeleted = TRUE]))
                ELSE /\ fs' = fs
                     /\ Finish(c, Catch(c, [r EXCEPT !.ioFailed = TRUE, !.failed = @ \cup {"unlink"}], fs,
                                        "Failed to delete file"))

\* Stage 5: deleteFile(backupPath)
deleteBackup(c) ==
  LET r == call[c]
      possible == UnlinkOk(fs, r.backupPath)
  IN  /\ r.pc = "deleteBackup"
      /\ \E fail \in BOOLEAN :
           /\ Outcome(possible, fail)
           /\ IF Ok(possible, fail)
                THEN /\ fs' = unlink(fs, r.backupPath)
                     /\ Finish(c, Complete(r))
                ELSE /\ fs' = fs
                     /\ Finish(c, Catch(c, [r EXCEPT !.ioFailed = TRUE, !.failed = @ \cup {"unlink"}], fs,
                                        "Failed to delete file"))

----------------------------------------------------------------------------
\* rollback: an error of any of its calls ends it (its own catch).

\* Variant of RollbackCatch: the error is thrown on, out of moveFile's catch
\* block, and the promise of moveFile is rejected.
RollbackCatch_Rethrow(r) ==
  [r EXCEPT !.pc = "rejected", !.ioFailed = TRUE, !.failed = @ \cup {"rollback"}]

\* rollback's catch block: log the error and return.
RollbackCatch(r) ==
  [r EXCEPT !.pc = "rbReturn", !.ioFailed = TRUE, !.failed = @ \cup {"rollback"}]

rollbackDeleteTarget(c) ==
  LET r == call[c]
      possible == UnlinkOk(fs, r.rbTargetFullPath)
  IN  /\ r.pc = "rbDeleteTarget"
      /\ \E fail \in BOOLEAN :
           /\ Outcome(possible, fail)
           /\ IF Ok(possible, fail)
                THEN /\ fs' = unlink(fs, r.rbTargetFullPath)
                     /\ Finish(c, RollbackBackupPart(c, r, fs'))
                ELSE /\ fs' = fs
                     /\ Finish(c, [RollbackCatch(r) EXCEPT !.rbDeleteFailed = TRUE])

rollbackRestore(c) ==
  LET r == call[c]
      backupPath == BackupPathOf(c, r.operation.sourceFile)
      possible == CopyOk(fs, backupPath, SourcePath(r))
  IN  /\ r.pc = "rbRestore"
      /\ \E fail \in BOOLEAN :
           /\ Outcome(possible, fail)
           /\ IF Ok(possible, fail)
                THEN /\ fs' = copyFile(fs, backupPath, SourcePath(r))
                     /\ Finish(c, [r EXCEPT !.pc = "rbDeleteBackup"])
                ELSE /\ fs' = fs
                     /\ Finish(c, RollbackCatch(r))

rollbackDeleteBackup(c) ==
  LET r == call[c]
      backupPath == BackupPathOf(c, r.operation.sourceFile)
      possible == UnlinkOk(fs, backupPath)
  IN  /\ r.pc = "rbDeleteBackup"
      /\ \E fail \in BOOLEAN :
           /\ Outcome(possible, fail)
           /\ fs' = IF Ok(possible, fail) THEN unlink(fs, backupPath) ELSE fs
           /\ Finish(c, IF Ok(possible, fail)
                           THEN [r EXCEPT !.pc = "rbReturn"]
                           ELSE RollbackCatch(r))

\* await this.rollback(...) is over: the failure return and the finally block.
AwaitRollback(c) ==
  LET r == call[c]
  IN  /\ r.pc = "rbReturn"
      /\ Finish(c, [r EXCEPT !.pc = "done",
                             !.result = [success |-> FALSE, newPath |-> NoPath,
                                         error |-> r.errorMessage]])
      /\ UNCHANGED <<fs, faults, cancels>>

\* The caller takes the MoveResult (or the rejection); the call's frame is
\* gone.
Return(c) ==
  /\ call[c].pc \in {"done", "rejected"}
  /\ call' = [call EXCEPT ![c] = ReturnedCall]
  /\ UNCHANGED <<fs, activeOperations, faults, cancels>>
  /\ UNCHANGED others

----------------------------------------------------------------------------
\* The initial file system: the source vault with its two notes, the empty
\* backup directory, and a destination vault in which the folder and the
\* proposed names may or may not be taken.

BaseFs ==
  (sourceVaultPath :> Dir)
  @@ (path_join(sourceVaultPath, <<N("Notes", "")>>) :> Dir)
  @@ (path_join(sourceVaultPath, Draft) :> File("hello"))
  @@ (path_join(sourceVaultPath, RootDraft) :> File("world"))
  @@ (targetVault.path :> Dir)
  @@ (tempDir :> Dir)

InboxPath == path_join(targetVault.path, <<Inbox>>)

InboxStates ==
  { <<>>,
    (InboxPath :> File("old")),
    (InboxPath :> Dir),
    (InboxPath :> Dir) @@ (InboxPath \o <<N("Draft", ".md")>> :> File("old")),
    (InboxPath :> Dir) @@ (InboxPath \o <<N("Draft", ".md")>> :> File("old"))
                       @@ (InboxPath \o <<N("Draft 1", ".md")>> :> File("old")) }

RootStates ==
  { <<>>, (targetVault.path \o <<N("Draft", ".md")>> :> File("old")) }

\* No batch, no sweep, nothing returned yet, an empty registry and an empty
\* list of recent destinations.
IdleBatch ==
  [pc |-> "idle", files |-> <<>>, targetFolderPath |-> NoPath,
   options |-> IdleCall.options, i |-> 0, c |-> 0, results |-> <<>>,
   progress |-> <<>>,
   \* the files handed to moveFile so far and how each call ended
   attempted |-> <<>>, outcomes |-> <<>>]

\* The last synchronous call: its name, its argument and what it returned.
Returned(fn, arg, value) == [fn |-> fn, arg |-> arg, value |-> value]

NoReturn == Returned("", NoPath, NULL)

IdleSweep ==
  [pc |-> "idle", files |-> <<>>, i |-> 0, now |-> 0, threw |-> FALSE,
   before |-> <<>>]

OthersIdle ==
  /\ batch = IdleBatch
  /\ sweep = IdleSweep
  /\ ret = NoReturn
  /\ vaultCache = <<>>
  /\ recentDestinations = <<>>
  /\ now = 0

Init ==
  /\ fs \in {i @@ t @@ BaseFs : i \in InboxStates, t \in RootStates}
  /\ activeOperations = <<>>
  /\ call = [c \in Calls |-> IdleCall]
  /\ faults = 0
  /\ cancels = 0
  /\ OthersIdle

Step(c) ==
  \/ AwaitHandleConflict(c)
  \/ readFileContent(c)
  \/ getFileStats(c)
  \/ createBackup(c)
  \/ ensureDirectory(c)
  \/ writeFileContent(c)
  \/ preserveFileMetadata(c)
  \/ calculateSourceHash(c)
  \/ calculateTargetHash(c)
  \/ deleteSource(c)
  \/ deleteBackup(c)
  \/ rollbackDeleteTarget(c)
  \/ rollbackRestore(c)
  \/ rollbackDeleteBackup(c)
  \/ AwaitRollback(c)
  \/ Return(c)

\* With one call at a time rollback never finds the source missing beside a
\* backup (NoRestoreAlone), so rollbackRestore is no step of Next.
TransferStep(c) ==
  \/ AwaitHandleConflict(c)
  \/ readFileContent(c)
  \/ getFileStats(c)
  \/ createBackup(c)
  \/ ensureDirectory(c)
  \/ writeFileContent(c)
  \/ preserveFileMetadata(c)
  \/ calculateSourceHash(c)
  \/ calculateTargetHash(c)
  \/ deleteSource(c)
  \/ deleteBackup(c)
  \/ rollbackDeleteTarget(c)
  \/ rollbackDeleteBackup(c)
  \/ AwaitRollback(c)

SeqStep(c) == TransferStep(c) \/ Return(c)

Next == \E c \in Calls : moveFile(c) \/ SeqStep(c)

Spec == Init /\ [][Next]_vars

\* Every awaited filesystem call completes and every continuation runs.
FairSpec == Spec /\ WF_vars(\E c \in Calls : SeqStep(c))

NoRestoreAlone == \A c \in Calls : call[c].pc # "rbRestore"

----------------------------------------------------------------------------
\* moveFiles: the batch loop around moveFile.

\* The lists a batch is called with.
BatchLists == UNION {[1..n -> Files] : n \in 0..MaxCalls}

\* Variant of BatchStops: any failure ends the batch.
BatchStops_OnAnyFailure(result, options) == ~result.success

\* "Stop on error if not in batch mode"
BatchStops(result, options) ==
  ~result.success /\ options.conflictStrategy = "ask"

\* Variant of ResultAwaited: the loop goes on without the await.
ResultAwaited_Not(r) == r.pc # "idle"

\* await this.moveFile(...): the call has returned its MoveResult.
ResultAwaited(r) == r.pc = "done"

\* One turn of the loop up to its await: the batch callback, then moveFile
\* up to its first await, for files[b.i] (b.i counts from 0).
BatchTurn(b, c, calls) ==
  LET file == b.files[b.i + 1]
  IN  /\ batch' = [b EXCEPT
            !.pc = "await", !.c = c,
            !.progress = Append(@, <<b.i + 1, Len(b.files), path_basename(file)>>),
            !.attempted = Append(@, file)]
      /\ call' = [calls EXCEPT ![c] =
            StartedCall(c, "moveFiles", file, b.targetFolderPath, b.options)]
      /\ activeOperations' = Append(activeOperations, c)

\* moveFiles up to its first await (or to its return, for an empty list).
moveFiles(c) ==
  /\ batch.pc = "idle"
  /\ NextCall(c)
  /\ \A d \in Calls : call[d].pc \in {"idle", "returned"}
  /\ \E files \in BatchLists, targetFolderPath \in TargetFolders,
        options \in MoveOptions :
       LET b == [IdleBatch EXCEPT !.files = files, !.options = options,
                                  !.targetFolderPath = targetFolderPath]
       IN  IF files = <<>>
             THEN /\ batch' = [b EXCEPT !.pc = "returned"]
                  /\ UNCHANGED <<call, activeOperations>>
             ELSE BatchTurn(b, c, call)
  /\ UNCHANGED <<fs, faults, cancels, sweep, ret, vaultCache,
                 recentDestinations, now>>

\* The loop after its await: results.set, the break, and the next turn or
\* the return.
moveFilesResume(c) ==
  LET result == call[c].result
      b == [batch EXCEPT
              !.results = (call[c].file :> result) @@ @,
              !.outcomes = Append(@, result.success),
              !.i = @ + 1]
      calls == [call EXCEPT ![c] = ReturnedCall]
  IN  /\ batch.pc = "await" /\ batch.c = c
      /\ ResultAwaited(call[c])
      /\ IF BatchStops(result, batch.options) \/ b.i = Len(b.files)
           THEN /\ batch' = [b EXCEPT !.pc = "returned"]
                /\ call' = calls
                /\ UNCHANGED activeOperations
           ELSE /\ c + 1 \in Calls
                /\ BatchTurn(b, c + 1, calls)
      /\ UNCHANGED <<fs, faults, cancels, sweep, ret, vaultCache,
                     recentDestinations, now>>

NextBatch ==
  \E c \in Calls : moveFiles(c) \/ moveFilesResume(c) \/ TransferStep(c)

SpecBatch == Init /\ [][NextBatch]_vars

----------------------------------------------------------------------------
\* Overlapping transfers: the plugin's performFileMove, moveFile called while
\* another call is in flight, and cancelOperation.

\* What overlapping direct calls are made with.
ConcOptions ==
  [deleteOriginal : {TRUE}, preserveMetadata : {TRUE},
   conflictStrategy : {"overwrite", "rename"}]

moveFileConc(c) ==
  \E file \in Files, targetFolderPath \in TargetFolders, options \in ConcOptions :
    MoveFileStart(c, "moveFile", file, targetFolderPath, options)

\* Variant of AlreadyInProgress: the check is left out.
AlreadyInProgress_Never(filePath) == FALSE

\* performFileMove: "A move operation is already in progress for this file"
AlreadyInProgress(filePath) == isOperationActive(filePath)

\* DEFAULT_SETTINGS.preserveFileHistory
preserveFileHistory == FALSE

\* The plugin's settings decide deleteOriginal and preserveMetadata; the
\* strategy is always rename.  A declined confirmation starts nothing.
performFileMove(c) ==
  \E file \in Files, targetFolderPath \in TargetFolders,
     deleteOriginalAfterMove \in BOOLEAN, confirmed \in BOOLEAN :
    IF AlreadyInProgress(file) \/ ~confirmed
      THEN /\ call[c].pc = "idle"
           /\ UNCHANGED vars
      ELSE MoveFileStart(c, "performFileMove", file, targetFolderPath,
                         [deleteOriginal |-> deleteOriginalAfterMove,
                          preserveMetadata |-> preserveFileHistory,
                          conflictStrategy |-> "rename"])

\* The first tracked operation of the path, in the index's insertion order.
FirstTracked(filePath) ==
  LET hits == {i \in 1..Len(activeOperations) :
                 call[activeOperations[i]].operation.sourceFile = filePath}
  IN  IF hits = {} THEN 0
      ELSE activeOperations[CHOOSE i \in hits : \A j \in hits : i <= j]

\* Variant of Cancelled: the cancelled call is ended on the spot.
Cancelled_Aborts(r) ==
  [r EXCEPT !.operation.status = "failed",
            !.operation.error = "Operation cancelled by user",
            !.cancelled = TRUE, !.pc = "done",
            !.result = [success |-> FALSE, newPath |-> NoPath,
                        error |-> "Operation cancelled by user"]]

\* cancelOperation marks the operation record; the call goes on.
Cancelled(r) ==
  [r EXCEPT !.operation.status = "failed",
            !.operation.error = "Operation cancelled by user",
            !.cancelled = TRUE]

cancelOperation(filePath) ==
  LET id == FirstTracked(filePath)
  IN  /\ cancels < MaxCancels
      /\ cancels' = cancels + 1
      /\ ret' = Returned("cancelOperation", filePath, id # 0)
      /\ IF id = 0
           THEN UNCHANGED <<call, activeOperations>>
           ELSE /\ call' = [call EXCEPT ![id] = Cancelled(call[id])]
                /\ activeOperations' = Untrack(activeOperations, id)
      /\ UNCHANGED <<fs, faults, batch, sweep, vaultCache, recentDestinations, now>>

NextConc ==
  \/ \E c \in Calls : moveFileConc(c) \/ performFileMove(c) \/ Step(c)
  \/ \E filePath \in Files : cancelOperation(filePath)

\* Overlapping runs start from a destination whose Inbox is a file or holds
\* Draft.md, and inject no failure: the calls fail only where the file
\* system refuses them.
InitConc ==
  /\ fs \in {(InboxPath :> File("old")) @@ BaseFs,
              (InboxPath :> Dir) @@ (InboxPath \o <<N("Draft", ".md")>> :> File("old"))
                @@ BaseFs}
  /\ activeOperations = <<>>
  /\ call = [c \in Calls |-> IdleCall]
  /\ faults = MaxFaults
  /\ cancels = 0
  /\ OthersIdle

SpecConc == InitConc /\ [][NextConc]_vars

----------------------------------------------------------------------------
\* Properties of one moveFile call (Spec: one call at a time).

InFlight(c) == call[c].pc \notin {"idle", "rejected", "returned"}

Done(c) == call[c].pc = "done"

BackupOf(c) == BackupPathOf(c, call[c].file)

SourceIntact(c) == Content(fs, SourcePath(call[c])) = call[c].orig

\* C1: while a call runs and when it has returned, the content the source
\* file had when the call started is at the source path, at the resolved
\* target path or in the call's backup file.
NoDataLoss ==
  \A c \in Calls :
    InFlight(c) /\ call[c].orig # "" =>
      call[c].orig \in {Content(fs, SourcePath(call[c])),
                        Content(fs, TargetFullPath(call[c])),
                        Content(fs, BackupOf(c))}

\* A failed call whose source is gone: the content is kept elsewhere.
NoDataLossWitness ==
  \E c \in Calls :
    /\ Done(c) /\ ~call[c].result.success /\ call[c].orig # ""
    /\ ~existsSync(fs, SourcePath(call[c]))

\* C2: with deleteOriginal, no conflict and no failing filesystem call the
\* call succeeds, the target holds the source's content, and neither the
\* source nor the backup is left.
MoveCompletes ==
  \A c \in Calls :
    /\ Done(c) /\ call[c].orig # "" /\ ~call[c].conflict
    /\ call[c].options.deleteOriginal /\ ~call[c].ioFailed
    => /\ call[c].result.success
       /\ Content(fs, TargetFullPath(call[c])) = call[c].orig
       /\ ~existsSync(fs, SourcePath(call[c]))
       /\ ~existsSync(fs, BackupOf(c))

MoveCompletesWitness ==
  \E c \in Calls :
    /\ Done(c) /\ call[c].orig # "" /\ ~call[c].conflict
    /\ call[c].options.deleteOriginal /\ ~call[c].ioFailed
    /\ call[c].sourceDeleted

\* C3: a successful call with deleteOriginal = false leaves the source as it
\* was, makes no backup, and the target is a copy of the source.
CopyKeepsSource ==
  \A c \in Calls :
    Done(c) /\ call[c].result.success /\ ~call[c].options.deleteOriginal
    => /\ call[c].orig # ""
       /\ SourceIntact(c)
       /\ ~existsSync(fs, BackupOf(c))
       /\ Content(fs, TargetFullPath(call[c])) = call[c].orig

CopyKeepsSourceWitness ==
  \E c \in Calls :
    /\ Done(c) /\ call[c].result.success /\ ~call[c].options.deleteOriginal
    /\ call[c].wrote

WriteFailureMessage(stage) ==
  IF stage = "ensureDirectory" THEN "Failed to create directory"
  ELSE "Failed to write file"

\* C4: when ensureDirectory or writeFileContent fails, the call returns
\* success = false with that error and the source file has its original
\* content.
WriteFailureKeepsSource ==
  \A c \in Calls :
    Done(c) /\ call[c].failedAt \in {"ensureDirectory", "writeFileContent"}
    => /\ ~call[c].result.success
       /\ call[c].result.error = WriteFailureMessage(call[c].failedAt)
       /\ call[c].orig # ""
       /\ SourceIntact(c)

WriteFailureWitness ==
  \E c \in Calls :
    /\ Done(c) /\ call[c].failedAt = "writeFileContent"
    /\ call[c].options.deleteOriginal

\* C5: a returned call has either kept the source and left no file it wrote
\* at the resolved target path, or left the target and (with deleteOriginal)
\* removed the verified source; a failed call leaves no file it wrote.
AllOrNothing ==
  \A c \in Calls :
    Done(c) /\ call[c].orig # "" =>
      LET written == call[c].wrote /\ existsSync(fs, TargetFullPath(call[c]))
      IN  /\ \/ SourceIntact(c) /\ ~written
             \/ /\ existsSync(fs, TargetFullPath(call[c]))
                /\ call[c].options.deleteOriginal =>
                     /\ ~existsSync(fs, SourcePath(call[c]))
                     /\ call[c].verified = "true"
          /\ ~call[c].result.success => ~written

\* C6: a call that fails after it wrote the target has rollback unlink the
\* resolved target file, which is gone at the return unless that unlink failed.
RollbackDeletesTargetFile ==
  \A c \in Calls :
    Done(c) /\ ~call[c].result.success /\ call[c].wrote
    => /\ call[c].rbTargetFullPath = TargetFullPath(call[c])
       /\ ~call[c].rbDeleteFailed => ~existsSync(fs, TargetFullPath(call[c]))

\* C7: a call that fails while its backup exists and the source is missing
\* returns with the source restored and the backup deleted.
RollbackRestoresSource ==
  \A c \in Calls :
    Done(c) /\ call[c].lostAtFail
    => SourceIntact(c) /\ ~existsSync(fs, BackupOf(c))

----------------------------------------------------------------------------
\* Properties of overlapping calls (SpecConc).

\* A failed verification: rollback was started, the call has not deleted
\* the source and does not return success.
VerifyFailureRollsBack(c) ==
  call[c].verified = "false" =>
    /\ call[c].rolledBack
    /\ ~call[c].sourceDeleted
    /\ call[c].pc \in {"rbDeleteTarget", "rbRestore", "rbDeleteBackup",
                        "rbReturn", "done"}
    /\ Done(c) => ~call[c].result.success

\* C9: a source file is removed only by the cleaning stage of a call whose
\* backup exists and whose verification read both files and found equal
\* checksums; a verification that finds a mismatch or cannot read a file
\* fails the call, deletes nothing and starts rollback.
VerifiedBeforeDelete ==
  [][ /\ \A file \in Files :
           IsFile(fs, path_join(sourceVaultPath, file))
           /\ ~existsSync(fs', path_join(sourceVaultPath, file))
           => \E c \in Calls :
                /\ call[c].pc = "deleteSource" /\ call[c].file = file
                /\ call[c].hashesMatched
                /\ Content(fs, BackupOf(c)) = Content(fs, SourcePath(call[c]))
                /\ call'[c].sourceDeleted
      /\ \A c \in Calls : VerifyFailureRollsBack(c)' ]_vars

\* A call found a real mismatch between the two files on disk.
VerifyMismatchWitness ==
  \E c \in Calls :
    /\ Done(c) /\ call[c].verified = "false" /\ call[c].mismatch
    /\ SourceIntact(c)

\* The tracked operations of a source path, and those of them that were
\* started by performFileMove.
Tracked(filePath) ==
  {i \in 1..Len(activeOperations) :
     call[activeOperations[i]].operation.sourceFile = filePath}

TrackedByPlugin(filePath) ==
  {i \in Tracked(filePath) : call[activeOperations[i]].via = "performFileMove"}

\* C10 as claimed: at most one tracked operation per source path, whoever
\* started the transfers.
OneOperationPerPath ==
  \A filePath \in Files : Cardinality(Tracked(filePath)) <= 1

\* C10: performFileMove starts no transfer for a path that is tracked, so at
\* most one tracked operation per source path was started by it, whatever
\* cancelOperation and direct moveFile calls do in between.
OnePluginOperationPerPath ==
  [][ /\ \A c \in Calls :
           call[c].pc = "idle" /\ call'[c].via = "performFileMove"
           => ~isOperationActive(call'[c].file)
      /\ \A filePath \in Files : Cardinality(TrackedByPlugin(filePath)') <= 1
    ]_vars

\* Two transfers of one path started by performFileMove are in flight: the
\* first was cancelled, the second is the tracked one.
PluginRestartWitness ==
  \E c, d \in Calls :
    /\ c # d /\ InFlight(c) /\ InFlight(d)
    /\ call[c].file = call[d].file
    /\ call[c].via = "performFileMove" /\ call[d].via = "performFileMove"
    /\ Cardinality(TrackedByPlugin(call[c].file)) = 1

----------------------------------------------------------------------------
\* The index of active operations seen through isOperationActive (SpecConc).

\* The call has started and has not resolved yet.
Running(c) == call[c].pc \notin {"idle", "done", "rejected", "returned"}

\* No transfer of the path is in flight: isOperationActive answers false.
InactiveWhenResolved ==
  \A p \in Files :
    isOperationActive(p) => \E c \in Calls : Running(c) /\ call[c].file = p

\* C11 as stated: isOperationActive(path) is true at every point between the
\* start of a moveFile call for the path and its resolution, and false once
\* the call has resolved and no other transfer of the path is in flight.
ActiveWhileRunning ==
  /\ \A c \in Calls : Running(c) => isOperationActive(call[c].file)
  /\ InactiveWhenResolved

\* C11: isOperationActive(path) is true at every point between the start of
\* a moveFile call for the path and its resolution unless cancelOperation
\* has removed the call's record meanwhile, and false once the call has
\* resolved and no other transfer of the path is in flight.
ActiveUnlessCancelled ==
  /\ \A c \in Calls :
       Running(c) /\ ~call[c].cancelled => isOperationActive(call[c].file)
  /\ InactiveWhenResolved

\* One call has resolved and its path is no longer active while another
\* call, not cancelled, is still running and its path is active.
ActiveWitness ==
  \E c, d \in Calls :
    /\ Done(c) /\ ~isOperationActive(call[c].file)
    /\ Running(d) /\ ~call[d].cancelled /\ isOperationActive(call[d].file)

----------------------------------------------------------------------------
\* Termination and the finally block (FairSpec).

Untracked(c) == \A i \in 1..Len(activeOperations) : activeOperations[i] # c

\* C12: every moveFile call that has started resolves, and at its resolution
\* its operation record is not in the index of active operations, whatever
\* the outcome.
AlwaysReturnsUntracked ==
  /\ \A c \in Calls : Running(c) ~> (Done(c) /\ Untracked(c))
  /\ [](\A c \in Calls : Done(c) => Untracked(c))

\* A call whose rollback failed has returned and is not tracked.
ReturnedAfterRollbackFailure ==
  \E c \in Calls :
    Done(c) /\ "rollback" \in call[c].failed /\ ~call[c].result.success
            /\ Untracked(c)

----------------------------------------------------------------------------
\* Errors of the filesystem calls (Spec).

\* The calls whose error moveFile's catch block receives.
FatalCalls == {"readFile", "copyFile", "mkdir", "writeFile", "hash", "unlink"}

FailureMessage(name) ==
  CASE name = "readFile" -> "Failed to read file"
    [] name = "copyFile" -> "Failed to create backup"
    [] name = "mkdir" -> "Failed to create directory"
    [] name = "writeFile" -> "Failed to write file"
    [] name = "hash" -> "File verification failed - content mismatch"
    [] name = "unlink" -> "Failed to delete file"

\* C13 as stated: no exception escapes moveFile, and a failure of any
\* filesystem call (read, stat, backup copy, mkdir, write, hash, unlink)
\* makes it return success=false with an error message.
EveryFailureReported ==
  \A c \in Calls :
    /\ call[c].pc # "rejected"
    /\ Done(c) /\ call[c].failed \cap (FatalCalls \cup {"stat"}) # {} =>
         ~call[c].result.success /\ call[c].result.error # ""

\* C13: no exception escapes moveFile, not even from rollback; a failure of
\* read, backup copy, mkdir, write, hash or unlink makes it return
\* success=false with that failure's message.  (A failure of fs.stat is
\* swallowed by getFileStats and does not fail the transfer.)
FatalFailureReported ==
  \A c \in Calls :
    /\ call[c].pc # "rejected"
    /\ Done(c) =>
         \A name \in call[c].failed \cap FatalCalls :
           /\ ~call[c].result.success
           /\ call[c].result.error = FailureMessage(name)

\* Deleting the source failed and then rollback's own delete failed: the
\* call has returned the first failure's message.
FailureInsideRollbackWitness ==
  \E c \in Calls :
    /\ Done(c) /\ {"unlink", "rollback"} \subseteq call[c].failed
    /\ call[c].failedAt = "deleteSource"
    /\ call[c].result = [success |-> FALSE, newPath |-> NoPath,
                          error |-> "Failed to delete file"]

----------------------------------------------------------------------------
\* Conflicts (Spec).

\* The call found its proposed target path taken and its strategy is skip.
SkippedConflict(r) == r.conflict /\ r.options.conflictStrategy = "skip"

\* C14: a call with strategy skip whose proposed target path exists reads
\* nothing, creates no backup and writes nothing, no step of it changes the
\* file system (source, pre-existing target, target folder, temp directory),
\* and it returns the error 'File move cancelled due to conflict'.
SkipLeavesAllUnchanged ==
  /\ [](\A c \in Calls :
         InFlight(c) /\ SkippedConflict(call[c]) =>
           /\ call[c].fileContent = "" /\ call[c].backupPath = NoPath
           /\ ~call[c].wrote
           /\ call[c].pc \in {"handleConflict", "rbDeleteTarget", "rbReturn", "done"}
           /\ Done(c) =>
                call[c].result = [success |-> FALSE, newPath |-> NoPath,
                                  error |-> "File move cancelled due to conflict"])
  /\ [][\A c \in Calls :
          InFlight(c) /\ SkippedConflict(call[c]) => fs' = fs]_vars

\* A skipped call has returned after its rollback tried the target folder.
SkipWitness ==
  \E c \in Calls :
    /\ Done(c) /\ SkippedConflict(call[c])
    /\ call[c].failedAt = "handleConflict" /\ call[c].rbDeleteFailed
    /\ call[c].result.error = "File move cancelled due to conflict"
    /\ Content(fs, TargetFullPath(call[c])) = "old" /\ SourceIntact(c)

\* The target folder joined with the source's base name.
ProposedPath(r) ==
  normalizePath(path_join(r.targetFolderPath, <<path_basename(r.file)>>))

\* The call is past its conflict handling and was not stopped by it.
PastConflict(r) ==
  r.pc \notin {"idle", "handleConflict", "rejected", "returned"}
  /\ r.failedAt # "handleConflict"

\* C15: the resolver is asked only when the proposed path exists and answers
\* no path for skip, the proposed path for overwrite, and
\* getAvailableFilename(targetVault, path) for rename and for ask alike; a
\* call whose proposed path is free goes on with the proposed path whatever
\* its strategy.
ConflictResolution ==
  \A c \in Calls :
    LET r == call[c]
        strategy == r.options.conflictStrategy
    IN  InFlight(c) =>
          /\ r.pc = "handleConflict" =>
                /\ r.conflict
                /\ fileExists(fs, targetVault, ProposedPath(r))
                /\ strategy = "skip" => r.resolvedPath = NoPath
                /\ strategy = "overwrite" => r.resolvedPath = ProposedPath(r)
                /\ strategy \in {"rename", "ask"} =>
                     r.resolvedPath =
                       getAvailableFilename(fs, targetVault, ProposedPath(r))
          /\ ~r.conflict =>
                /\ r.resolvedPath = NoPath
                /\ r.pc # "handleConflict" /\ r.failedAt # "handleConflict"
                /\ r.targetRelativePath = ProposedPath(r)
          /\ r.conflict /\ PastConflict(r) =>
                /\ strategy # "skip"
                /\ r.targetRelativePath = r.resolvedPath
                /\ strategy = "overwrite" <=> r.resolvedPath = ProposedPath(r)

\* A call with strategy ask found Draft.md and Draft 1.md taken and has
\* written Draft 2.md, as rename does.
ConflictResolutionWitness ==
  \E c \in Calls :
    /\ Done(c) /\ call[c].result.success
    /\ call[c].conflict /\ call[c].options.conflictStrategy = "ask"
    /\ call[c].result.newPath = <<Inbox, N("Draft 2", ".md")>>
    /\ Content(fs, TargetFullPath(call[c])) = call[c].orig

\* The names "<base> <counter><ext>" of a name.  At most Draft.md and "Draft 1.md" are taken at the start and each call
\* takes one more name.
Suffixed(name) ==
  {N(name.base \o " " \o ToString(k), name.ext) : k \in 1..(MaxCalls + 2)}

RenamedOverConflict(r) == r.conflict /\ r.options.conflictStrategy = "rename"

\* C16: a successful transfer with strategy rename whose proposed target
\* path was taken returns the proposed name with a counter suffix in the
\* same folder, the new file holds the source content, no step of the call
\* changes the file at the proposed path, and with deleteOriginal the source
\* is gone.
RenameKeepsExisting ==
  /\ [](\A c \in Calls :
         LET r == call[c]
         IN  Done(c) /\ r.result.success /\ RenamedOverConflict(r) =>
               /\ path_dirname(r.result.newPath) = path_dirname(ProposedPath(r))
               /\ path_basename(r.result.newPath)
                    \in Suffixed(path_basename(ProposedPath(r)))
               /\ Content(fs, path_join(targetVault.path, r.result.newPath)) = r.orig
               /\ r.options.deleteOriginal => ~existsSync(fs, SourcePath(r)))
  /\ [][\A c \in Calls :
          LET proposed == path_join(targetVault.path, ProposedPath(call[c]))
          IN  InFlight(c) /\ RenamedOverConflict(call[c]) =>
                /\ IsFile(fs', proposed)
                /\ Content(fs', proposed) = Content(fs, proposed)]_vars

\* Inbox/Draft.md was taken: the move has written "hello" to
\* Inbox/Draft 1.md, Inbox/Draft.md still holds its old content and the
\* source is gone.
RenameWitness ==
  \E c \in Calls :
    /\ Done(c) /\ call[c].result.success /\ RenamedOverConflict(call[c])
    /\ call[c].options.deleteOriginal
    /\ call[c].result.newPath = <<Inbox, N("Draft 1", ".md")>>
    /\ Content(fs, InboxPath \o <<N("Draft 1", ".md")>>) = "hello"
    /\ Content(fs, InboxPath \o <<N("Draft", ".md")>>) = "old"
    /\ ~existsSync(fs, SourcePath(call[c]))

----------------------------------------------------------------------------
\* getAvailableFilename on every vault state the transfers produce (Spec).

\* Relative paths of the target vault: the folder, and taken, free and
\* already suffixed names in the root and in the folder.
ProbePaths ==
  {<<Inbox>>}
  \cup {folder \o <<N(base, ".md")>> :
          folder \in {<<>>, <<Inbox>>}, base \in {"Draft", "Draft 1", "Draft 2"}}

\* C17: the path getAvailableFilename returns does not exist in the vault,
\* lies in the directory of the input and has the extension of the input.
AvailableIsFree ==
  \A p \in ProbePaths :
    LET q == getAvailableFilename(fs, targetVault, p)
    IN  /\ ~fileExists(fs, targetVault, q)
        /\ path_dirname(q) = path_dirname(p)
        /\ path_extname(q) = path_extname(p)

\* A call has asked for a name while Draft.md and "Draft 1.md" were both
\* taken in the folder and got "Draft 2.md".
AvailableWitness ==
  \E c \in Calls :
    /\ call[c].pc = "handleConflict"
    /\ call[c].options.conflictStrategy = "rename"
    /\ fileExists(fs, targetVault, <<Inbox, N("Draft", ".md")>>)
    /\ fileExists(fs, targetVault, <<Inbox, N("Draft 1", ".md")>>)
    /\ call[c].resolvedPath = <<Inbox, N("Draft 2", ".md")>>
    /\ ~fileExists(fs, targetVault, call[c].resolvedPath)

\* C18: getAvailableFilename returns a free path unchanged, its result is a
\* fixed point of it, and the step that calls it leaves the files alone.
AvailableIdempotent ==
  /\ [](\A p \in ProbePaths :
         LET q == getAvailableFilename(fs, targetVault, p)
         IN  /\ ~fileExists(fs, targetVault, p) => q = p
             /\ getAvailableFilename(fs, targetVault, q) = q)
  /\ [][\A c \in Calls :
          call[c].pc = "idle" /\ call'[c].pc = "handleConflict" => fs' = fs]_vars

\* A call has got "Draft 1.md" for the taken Draft.md of the root; asked
\* again with that answer, getAvailableFilename returns it.
IdempotentWitness ==
  \E c \in Calls :
    /\ call[c].pc = "handleConflict"
    /\ call[c].options.conflictStrategy = "rename"
    /\ call[c].resolvedPath = <<N("Draft 1", ".md")>>
    /\ getAvailableFilename(fs, targetVault, call[c].resolvedPath)
         = call[c].resolvedPath

----------------------------------------------------------------------------
\* Progress reports (Spec).

P(stage, percentage) == [stage |-> stage, percentage |-> percentage]

\* The reports of a transfer that reaches the success return.
FullProgress(options, statsCaptured) ==
  <<P("preparing", 0), P("reading", 20)>>
  \o (IF options.deleteOriginal THEN <<P("reading", 30)>> ELSE <<>>)
  \o <<P("writing", 40), P("writing", 60)>>
  \o (IF options.preserveMetadata /\ statsCaptured
        THEN <<P("writing", 70)>> ELSE <<>>)
  \o <<P("verifying", 80)>>
  \o (IF options.deleteOriginal THEN <<P("cleaning", 90)>> ELSE <<>>)
  \o <<P("complete", 100)>>

IsPrefix(a, b) == Len(a) <= Len(b) /\ a = SubSeq(b, 1, Len(a))

\* C19: what the callback has been handed is at every moment a prefix of
\* preparing(0), reading(20, 30 iff deleteOriginal), writing(40, 60, 70 iff
\* preserveMetadata and stats captured), verifying(80), cleaning(90 iff
\* deleteOriginal), complete(100), with increasing percentages; a call that
\* returns success has reported all of it and a call that returns a failure
\* has reported a proper prefix, without 'complete'.
ProgressInOrder ==
  \A c \in Calls :
    LET r == call[c]
        full == FullProgress(r.options, r.fileStats # NULL)
    IN  InFlight(c) =>
          /\ r.progress # <<>>
          /\ IsPrefix(r.progress, full)
          /\ \A i, j \in 1..Len(r.progress) :
               i < j => r.progress[i].percentage < r.progress[j].percentage
          /\ (\E i \in 1..Len(r.progress) : r.progress[i].stage = "complete")
               <=> Done(c) /\ r.result.success
          /\ Done(c) /\ r.result.success => r.progress = full
          /\ Done(c) /\ ~r.result.success => Len(r.progress) < Len(full)

\* A move with preserved timestamps has failed while it deleted its backup:
\* everything up to cleaning(90) was reported and nothing after it.
ProgressWitness ==
  \E c \in Calls :
    /\ Done(c) /\ ~call[c].result.success /\ call[c].failedAt = "deleteBackup"
    /\ call[c].progress =
         <<P("preparing", 0), P("reading", 20), P("reading", 30),
           P("writing", 40), P("writing", 60), P("writing", 70),
           P("verifying", 80), P("cleaning", 90)>>

----------------------------------------------------------------------------
\* Timestamps (Spec).

\* The call's record without its position, its reports and the record of
\* what failed.
Core(r) == [r EXCEPT !.pc = "", !.progress = <<>>, !.ioFailed = FALSE, !.failed = {}]

\* C20: the step that sets the target's timestamps goes on to the
\* verification whether fs.utimes failed or not, changing neither the files
\* nor the call's data, so the run ends as the run without preserveMetadata
\* does; a call in which nothing but fs.utimes failed returns success with
\* the content at the target, and with deleteOriginal the source and the
\* backup gone.
MetadataFailureHarmless ==
  /\ [](\A c \in Calls :
         LET r == call[c]
         IN  Done(c) /\ r.failed = {"utimes"} =>
               /\ r.result = [success |-> TRUE, newPath |-> r.targetRelativePath,
                               error |-> ""]
               /\ Content(fs, TargetFullPath(r)) = r.orig
               /\ IF r.options.deleteOriginal
                    THEN ~existsSync(fs, SourcePath(r)) /\ ~existsSync(fs, BackupOf(c))
                    ELSE SourceIntact(c))
  /\ [][\A c \in Calls :
          call[c].pc = "preserveFileMetadata" /\ call'[c] # call[c] =>
            /\ call'[c].pc = "hashSource"
            /\ Core(call'[c]) = Core(call[c])
            /\ fs' = fs /\ activeOperations' = activeOperations]_vars

\* fs.utimes failed in a move that then verified, deleted the source and
\* the backup and returned success.
MetadataFailureWitness ==
  \E c \in Calls :
    /\ Done(c) /\ call[c].failed = {"utimes"} /\ call[c].result.success
    /\ call[c].options.deleteOriginal /\ call[c].options.preserveMetadata
    /\ call[c].sourceDeleted /\ call[c].hashesMatched

----------------------------------------------------------------------------
\* The batch (SpecBatch).

BatchReturned == batch.pc = "returned"

\* C21: the files are attempted in list order; with strategy ask the batch
\* ends after the first file whose result has success=false and no later
\* file is attempted or has a result; with every other strategy every file
\* is attempted; the result map has an entry for each attempted source path.
BatchOrder ==
  /\ IsPrefix(batch.attempted, batch.files)
  /\ \A k \in 1..(Len(batch.outcomes) - 1) :
       batch.options.conflictStrategy = "ask" => batch.outcomes[k]
  /\ BatchReturned =>
       /\ Len(batch.outcomes) = Len(batch.attempted)
       /\ DOMAIN batch.results =
            {batch.attempted[k] : k \in 1..Len(batch.attempted)}
       /\ IF batch.options.conflictStrategy = "ask"
               /\ \E k \in 1..Len(batch.outcomes) : ~batch.outcomes[k]
            THEN ~batch.outcomes[Len(batch.outcomes)]
            ELSE batch.attempted = batch.files

\* A batch of two files with strategy ask has returned after its first
\* file failed: the second file was not attempted and has no result.
BatchStoppedWitness ==
  /\ BatchReturned /\ batch.options.conflictStrategy = "ask"
  /\ Len(batch.files) = 2 /\ batch.files[1] # batch.files[2]
  /\ batch.attempted = <<batch.files[1]>>
  /\ DOMAIN batch.results = {batch.files[1]}
  /\ ~batch.results[batch.files[1]].success

\* C22: within a batch at most one call is in flight and at most one
\* operation is in the index; a call starts only when no other call is in
\* flight and the index is empty; and the batch callback has been handed
\* (index, total, name) for every file whose transfer has started.
BatchSequential ==
  /\ [](/\ Len(activeOperations) <= 1
        /\ Cardinality({c \in Calls : InFlight(c)}) <= 1
        /\ Len(batch.progress) = Len(batch.attempted)
        /\ \A k \in 1..Len(batch.progress) :
             batch.progress[k] =
               <<k, Len(batch.files), path_basename(batch.files[k])>>
        /\ \A c \in Calls :
             InFlight(c) =>
               /\ batch.attempted # <<>>
               /\ call[c].file = batch.attempted[Len(batch.attempted)])
  /\ [][\A c \in Calls :
          call[c].pc = "idle" /\ call'[c].pc # "idle" =>
            /\ activeOperations = <<>>
            /\ \A d \in Calls : d # c => call'[d].pc \in {"idle", "returned"}]_vars

\* The second file of a batch is in flight: the first call has returned,
\* its record is gone and the callback has been handed (2, 2, name).
BatchSecondWitness ==
  \E c \in Calls :
    /\ Running(c) /\ batch.pc = "await" /\ Len(batch.attempted) = 2
    /\ activeOperations = <<c>>
    /\ batch.progress[2] = <<2, 2, path_basename(call[c].file)>>
    /\ \A d \in Calls : d # c => call[d].pc = "returned"

----------------------------------------------------------------------------
\* cancelOperation (SpecConc).

\* The step is a cancelOperation call.
CancelStep == cancels' = cancels + 1

\* What cancelOperation does and returns: true iff an operation of the path
\* is tracked; then the first such operation is marked failed with the
\* cancellation message and leaves the index while its call stays where it
\* is; else nothing changes.  No file is touched.
CancelEffect ==
  CancelStep =>
    LET filePath == ret'.arg
        id == FirstTracked(filePath)
    IN  /\ ret'.fn = "cancelOperation"
        /\ ret'.value = isOperationActive(filePath)
        /\ fs' = fs
        /\ IF ret'.value
             THEN /\ call[id].operation.sourceFile = filePath
                  /\ call'[id].operation.status = "failed"
                  /\ call'[id].operation.error = "Operation cancelled by user"
                  /\ call'[id].pc = call[id].pc /\ Running(id)
                  /\ \A d \in Calls : d # id => call'[d] = call[d]
                  /\ \A d \in Calls : Untracked(d)' <=> Untracked(d) \/ d = id
             ELSE /\ call' = call
                  /\ activeOperations' = activeOperations

\* C23 as stated: cancelOperation as above, and no transfer of a path
\* starts while an operation of that path is tracked.
CancelAndNoStartWhileTracked ==
  [][ /\ CancelEffect
      /\ \A c \in Calls :
           call[c].pc = "idle" /\ call'[c].pc # "idle"
           => ~isOperationActive(call'[c].file)
    ]_vars

\* C23: cancelOperation as above, and performFileMove starts no transfer of
\* a path while an operation of that path is tracked (a direct moveFile
\* call is not held back).
CancelAndNoPluginStartWhileTracked ==
  [][ /\ CancelEffect
      /\ \A c \in Calls :
           call[c].pc = "idle" /\ call'[c].pc # "idle"
             /\ call'[c].via = "performFileMove"
           => ~isOperationActive(call'[c].file)
    ]_vars

\* A cancelled move went on after cancelOperation returned true: it has
\* deleted its source and returned success.
CancelledRunsOnWitness ==
  \E c \in Calls :
    /\ Done(c) /\ call[c].cancelled /\ call[c].result.success
    /\ call[c].sourceDeleted
    /\ ret = Returned("cancelOperation", call[c].file, TRUE)

----------------------------------------------------------------------------
\* VaultManager on disk: validateVault, discoverVaults, getVaultFolders.
\*
\* Here a name is the sequence of its UTF-16 code units (startsWith(".") and
\* the order of Array.prototype.sort are computed on it) and a path is the
\* sequence of its names.

Dot == 46
Slash == 47

Marker == <<46, 111, 98, 115, 105, 100, 105, 97, 110>>
Plugins == <<112, 108, 117, 103, 105, 110, 115>>
AppJson == <<97, 112, 112, 46, 106, 115, 111, 110>>
WorkspaceJson == <<119, 111, 114, 107, 115, 112, 97, 99, 101, 46, 106, 115, 111, 110>>

\* "Obsidian", "a", "b", "a b", ".h"
ObsidianName == <<79, 98, 115, 105, 100, 105, 97, 110>>
NameA == <<97>>
NameB == <<98>>
NameAB == <<97, 32, 98>>
NameHidden == <<46, 104>>

startsWith(name, code) == Len(name) > 0 /\ name[1] = code

\* getCommonVaultPaths (Linux), below the home directory: Obsidian and
\* .obsidian.
commonVaultPaths == << <<ObsidianName>>, <<Marker>> >>

\* fs.readdirSync(p, {withFileTypes: true}): the entries of the directory.
readdirSync(f, p) ==
  {q \in DOMAIN f : Len(q) = Len(p) + 1 /\ SubSeq(q, 1, Len(p)) = p}

Root1 == commonVaultPaths[1]
Root2 == commonVaultPaths[2]

\* The home directory.  Root1: absent, a file, or a directory with or
\* without a marker (a file named .obsidian, or the marker folder with some
\* of its usual content), with or without the entries a (a file, or a
\* directory, itself a vault or with the subdirectories b and .h), .h (a
\* vault) and "a b".  Root2: absent, a directory, a vault.
VaultFs ==
  LET m == Append(Root1, Marker)
      a == Append(Root1, NameA)
      h == Append(Root1, NameHidden)
      MarkerStates ==
        { <<>>,
          (m :> File("")),
          (m :> Dir),
          (m :> Dir) @@ (Append(m, Plugins) :> Dir),
          (m :> Dir) @@ (Append(m, AppJson) :> File("{}")),
          (m :> Dir) @@ (Append(m, WorkspaceJson) :> File("{}")) }
      ChildStates ==
        { <<>>,
          (a :> File("note")),
          (a :> Dir),
          (a :> Dir) @@ (Append(a, Marker) :> Dir),
          (a :> Dir) @@ (Append(a, NameB) :> Dir),
          (a :> Dir) @@ (Append(a, NameB) :> Dir) @@ (Append(a, NameHidden) :> Dir) }
      HiddenStates == { <<>>, (h :> Dir) @@ (Append(h, Marker) :> Dir) }
      SpacedStates == { <<>>, (Append(Root1, NameAB) :> Dir) }
      Root1States ==
        { <<>>, (Root1 :> File("")) }
        \cup { (Root1 :> Dir) @@ ms @@ cs @@ hs @@ ss :
                 ms \in MarkerStates, cs \in ChildStates,
                 hs \in HiddenStates, ss \in SpacedStates }
      Root2States ==
        { <<>>, (Root2 :> Dir), (Root2 :> Dir) @@ (Append(Root2, Marker) :> Dir) }
  IN  { r1 @@ r2 : r1 \in Root1States, r2 \in Root2States }

\* The paths validateVault is asked about.
VaultProbes ==
  {Root1, Root2, Append(Root1, NameA), Append(Root1, NameHidden),
   Append(Append(Root1, NameA), NameB)}

NoValidation ==
  [isValid |-> FALSE, hasConfigFile |-> FALSE, hasPluginsFolder |-> FALSE,
   hasDataFile |-> FALSE, error |-> NULL]

\* Variant of validateVaultCatch: the error is thrown on.
validateVaultCatch_Rethrow(result) == [thrown |-> TRUE]

\* validateVault's catch block.
validateVaultCatch(result) == [result EXCEPT !.error = "Error validating vault"]

\* validateVault on the file system f; statThrows: fs.statSync throws.
validateVault(f, vaultPath, statThrows) ==
  LET obsidianPath == Append(vaultPath, Marker)
      hasConfigFile == existsSync(f, obsidianPath)
      checked ==
        [NoValidation EXCEPT
           !.hasConfigFile = hasConfigFile,
           !.hasPluginsFolder =
             hasConfigFile /\ existsSync(f, Append(obsidianPath, Plugins)),
           !.hasDataFile =
             hasConfigFile /\ (existsSync(f, Append(obsidianPath, AppJson))
                               \/ existsSync(f, Append(obsidianPath, WorkspaceJson))),
           !.isValid = hasConfigFile]
  IN  IF ~existsSync(f, vaultPath)
        THEN [NoValidation EXCEPT !.error = "Path does not exist"]
      ELSE IF statThrows THEN validateVaultCatch(NoValidation)
      ELSE IF ~IsDir(f, vaultPath)
        THEN [NoValidation EXCEPT !.error = "Path is not a directory"]
      ELSE IF ~checked.isValid
        THEN [checked EXCEPT !.error = "No .obsidian folder found"]
      ELSE checked

\* The entries of a directory in the order readdirSync lists them: the
\* entry named first, if there is one, comes first.
RECURSIVE SeqOf(_)
SeqOf(S) ==
  IF S = {} THEN <<>>
  ELSE LET x == CHOOSE x \in S : TRUE IN <<x>> \o SeqOf(S \ {x})

EntriesInOrder(f, p, first) ==
  LET S == readdirSync(f, p)
      q == Append(p, first)
  IN  IF q \in S THEN <<q>> \o SeqOf(S \ {q}) ELSE SeqOf(S)

\* fs.readdirSync throws on a path that is no directory or cannot be read.
ReaddirThrows(f, p, broken) == ~IsDir(f, p) \/ p \in broken

createVaultConfig(vaultPath, k, t) ==
  [id |-> k, name |-> vaultPath[Len(vaultPath)], path |-> vaultPath,
   isValid |-> TRUE, lastAccessed |-> t]

\* processedPaths.add(p); discoveredVaults.push(createVaultConfig(p))
Discovered(acc, vaultPath, t) ==
  [vaults |-> Append(acc.vaults,
                     createVaultConfig(vaultPath, Len(acc.vaults) + 1, t)),
   processed |-> acc.processed \cup {vaultPath}]

\* The loop over the entries of one candidate root.
RECURSIVE ScanEntries(_, _, _, _, _)
ScanEntries(f, entries, broken, t, acc) ==
  IF entries = <<>> THEN acc
  ELSE LET vaultPath == Head(entries)
           name == vaultPath[Len(vaultPath)]
           next ==
             IF IsDir(f, vaultPath) /\ ~startsWith(name, Dot)
                  /\ vaultPath \notin acc.processed
                  /\ validateVault(f, vaultPath, vaultPath \in broken).isValid
               THEN Discovered(acc, vaultPath, t)
               ELSE acc
       IN  ScanEntries(f, Tail(entries), broken, t, next)

\* One turn of the loop over commonVaultPaths.
ScanBase(f, basePath, broken, first, t, acc) ==
  IF ~existsSync(f, basePath) THEN acc
  ELSE LET baseValidation == validateVault(f, basePath, basePath \in broken)
           acc1 == IF baseValidation.isValid /\ basePath \notin acc.processed
                     THEN Discovered(acc, basePath, t) ELSE acc
       IN  IF ReaddirThrows(f, basePath, broken) THEN acc1
           ELSE ScanEntries(f, EntriesInOrder(f, basePath, first), broken, t, acc1)

RECURSIVE ScanBases(_, _, _, _, _, _)
ScanBases(f, bases, broken, first, t, acc) ==
  IF bases = <<>> THEN acc
  ELSE ScanBases(f, Tail(bases), broken, first, t,
                 ScanBase(f, Head(bases), broken, first, t, acc))

discoverVaults(f, broken, first, t) ==
  ScanBases(f, commonVaultPaths, broken, first, t,
            [vaults |-> <<>>, processed |-> {}]).vaults

\* scanDirectory: the folders pushed, in the order of the pushes.
RECURSIVE scanDirectory(_, _, _, _)
RECURSIVE ScanFolderEntries(_, _, _, _)
ScanFolderEntries(f, entries, relativePath, broken) ==
  IF entries = <<>> THEN <<>>
  ELSE LET e == Head(entries)
           name == e[Len(e)]
           folderRelativePath ==
             IF relativePath # <<>> THEN relativePath \o <<Slash>> \o name ELSE name
       IN  (IF IsDir(f, e) /\ ~startsWith(name, Dot)
              THEN << <<Slash>> \o folderRelativePath >>
                   \o scanDirectory(f, e, folderRelativePath, broken)
              ELSE <<>>)
           \o ScanFolderEntries(f, Tail(entries), relativePath, broken)

scanDirectory(f, dirPath, relativePath, broken) ==
  IF ReaddirThrows(f, dirPath, broken) THEN <<>>
  ELSE ScanFolderEntries(f, SeqOf(readdirSync(f, dirPath)), relativePath, broken)

\* The order of Array.prototype.sort without a comparator: by code units.
LexLess(a, b) ==
  \E k \in 1..(Len(a) + 1) :
    /\ k <= Len(b)
    /\ \A i \in 1..(k - 1) : a[i] = b[i]
    /\ k = Len(a) + 1 \/ a[k] < b[k]

\* Variant of sort: the array is left as it is.
sort_None(seq) == seq

RECURSIVE sort(_)
sort(seq) ==
  IF seq = <<>> THEN <<>>
  ELSE LET i == CHOOSE i \in 1..Len(seq) :
                  \A j \in 1..Len(seq) : ~LexLess(seq[j], seq[i])
       IN  <<seq[i]>> \o sort(SubSeq(seq, 1, i - 1) \o SubSeq(seq, i + 1, Len(seq)))

getVaultFolders(f, vaultPath, broken) ==
  sort(<< <<Slash>> >> \o scanDirectory(f, vaultPath, <<>>, broken))

\* The registry index after construction, or holding one vault.
InitVault ==
  /\ fs \in VaultFs
  /\ activeOperations = <<>>
  /\ call = [c \in Calls |-> IdleCall]
  /\ faults = 0
  /\ cancels = 0
  /\ batch = IdleBatch
  /\ sweep = IdleSweep
  /\ ret = NoReturn
  /\ vaultCache \in {<<>>, <<createVaultConfig(Root1, 1, 0)>>}
  /\ recentDestinations = <<>>
  /\ now = 0

\* The directories whose statSync or readdirSync may fail.
Unreadable == SUBSET {Root1, Append(Root1, NameA)}

validateVaultCall ==
  \E vaultPath \in VaultProbes, statThrows \in BOOLEAN :
    /\ ret' = Returned("validateVault",
                       [vaultPath |-> vaultPath, statThrows |-> statThrows],
                       validateVault(fs, vaultPath, statThrows))
    /\ UNCHANGED <<fs, activeOperations, call, faults, cancels, batch, sweep,
                   vaultCache, recentDestinations, now>>

discoverVaultsCall ==
  \E broken \in Unreadable, first \in {NameA, NameAB} :
    /\ ret' = Returned("discoverVaults", [broken |-> broken],
                       discoverVaults(fs, broken, first, now))
    /\ UNCHANGED <<fs, activeOperations, call, faults, cancels, batch, sweep,
                   vaultCache, recentDestinations, now>>

getVaultFoldersCall ==
  \E vaultPath \in {Root1, Root2, Append(Root1, NameA)}, broken \in Unreadable :
    /\ ret' = Returned("getVaultFolders",
                       [vaultPath |-> vaultPath, broken |-> broken],
                       getVaultFolders(fs, vaultPath, broken))
    /\ UNCHANGED <<fs, activeOperations, call, faults, cancels, batch, sweep,
                   vaultCache, recentDestinations, now>>

NextVault == validateVaultCall \/ discoverVaultsCall \/ getVaultFoldersCall

SpecVault == InitVault /\ [][NextVault]_vars

\* C24: validateVault(path) answers isValid = true exactly when the path
\* exists, is a directory and contains the marker folder .obsidian, whatever
\* the marker folder holds; hasPluginsFolder or hasDataFile implies
\* hasConfigFile.  (Calls in which a filesystem call fails are left out.)
ValidIffMarkerFolder ==
  ret.fn = "validateVault" /\ ~ret.arg.statThrows
    => LET v == ret.value
           vaultPath == ret.arg.vaultPath
       IN  /\ v.isValid <=> /\ IsDir(fs, vaultPath)
                             /\ IsDir(fs, Append(vaultPath, Marker))
           /\ v.hasPluginsFolder \/ v.hasDataFile => v.hasConfigFile

\* C25: validateVault never throws; for a path that does not exist, a path
\* that is no directory and a failing filesystem call it answers
\* isValid = false with a non-empty error; a result has an error exactly
\* when it is not valid.
ValidateNeverThrows ==
  ret.fn = "validateVault"
    => LET v == ret.value
           vaultPath == ret.arg.vaultPath
       IN  /\ "isValid" \in DOMAIN v
           /\ v.isValid <=> v.error = NULL
           /\ v.error # ""
           /\ ~IsDir(fs, vaultPath) \/ ret.arg.statThrows => ~v.isValid

\* statSync failed on an existing vault folder and the call answered with
\* an error.
ValidateErrorWitness ==
  /\ ret.fn = "validateVault"
  /\ ret.arg.statThrows
  /\ IsDir(fs, Append(ret.arg.vaultPath, Marker))
  /\ ~ret.value.isValid
  /\ ret.value.error = "Error validating vault"

\* The candidate roots and their immediate subdirectories without a leading
\* dot.
Candidates ==
  LET roots == {commonVaultPaths[i] : i \in DOMAIN commonVaultPaths}
  IN  roots \cup {q \in DOMAIN fs :
                    /\ SubSeq(q, 1, Len(q) - 1) \in roots
                    /\ IsDir(fs, q)
                    /\ ~startsWith(q[Len(q)], Dot)}

\* C27: discoverVaults never throws; it returns only candidate roots and
\* their immediate subdirectories without a leading dot that validate as
\* vaults, no path twice; it returns the empty sequence when no candidate
\* contains a marker folder; the registry index is left as it was.
DiscoverOnlyVaults ==
  ret.fn = "discoverVaults"
    => LET vaults == ret.value
       IN  /\ \A i \in DOMAIN vaults :
                /\ vaults[i].path \in Candidates
                /\ validateVault(fs, vaults[i].path, FALSE).isValid
           /\ \A i, j \in DOMAIN vaults :
                i # j => vaults[i].path # vaults[j].path
           /\ (\A c \in Candidates : ~IsDir(fs, Append(c, Marker)))
                => vaults = <<>>
           /\ vaultCache \in {<<>>, <<createVaultConfig(Root1, 1, 0)>>}

\* "/a/b" for the directory a/b below the vault root of n names
RECURSIVE FolderString(_, _)
FolderString(q, n) ==
  IF Len(q) <= n THEN <<>>
  ELSE FolderString(SubSeq(q, 1, Len(q) - 1), n) \o <<Slash>> \o q[Len(q)]

\* The directories below the vault root that are reached through names
\* without a leading dot and through directories that can be read.
Reachable(vaultPath, broken) ==
  {q \in DOMAIN fs :
     /\ Len(q) > Len(vaultPath)
     /\ SubSeq(q, 1, Len(vaultPath)) = vaultPath
     /\ IsDir(fs, q)
     /\ \A k \in (Len(vaultPath) + 1)..Len(q) : ~startsWith(q[k], Dot)
     /\ \A k \in Len(vaultPath)..(Len(q) - 1) :
          IsDir(fs, SubSeq(q, 1, k)) /\ SubSeq(q, 1, k) \notin broken}

\* C28: getVaultFolders returns a list in lexicographic order that holds
\* "/" and "/a/b/..." for exactly the directories reached from the vault
\* root through names without a leading dot; a directory that cannot be
\* read is listed itself and only what lies below it is missing.
FoldersListed ==
  ret.fn = "getVaultFolders"
    => LET folders == ret.value
           vaultPath == ret.arg.vaultPath
           reach == Reachable(vaultPath, ret.arg.broken)
       IN  /\ \A i, j \in DOMAIN folders : i < j => LexLess(folders[i], folders[j])
           /\ {folders[i] : i \in DOMAIN folders}
                = {<<Slash>>} \cup {FolderString(q, Len(vaultPath)) : q \in reach}
           /\ Len(folders) = 1 + Cardinality(reach)

\* Root1/a could not be read: "/a" and "/a b" are listed, "/a/b" is not.
FoldersUnreadableWitness ==
  /\ ret.fn = "getVaultFolders"
  /\ ret.arg.vaultPath = Root1
  /\ ret.arg.broken = {Append(Root1, NameA)}
  /\ IsDir(fs, Append(Append(Root1, NameA), NameB))
  /\ IsDir(fs, Append(Root1, NameHidden))
  /\ ret.value = << <<Slash>>, <<Slash>> \o NameA, <<Slash>> \o NameAB >>

----------------------------------------------------------------------------
\* The registry index: vaultCache, a Map from vault id to VaultConfig, kept
\* as the sequence of its values in insertion order.

VaultIds == 1..3

\* The configs handed to loadVaults: settings.vaults, one config per id.
Configs ==
  { [id |-> k, name |-> n, path |-> <<n>>, isValid |-> TRUE, lastAccessed |-> 0] :
      k \in VaultIds, n \in {NameA, NameB} }

ConfigLists ==
  { l \in UNION {[1..n -> Configs] : n \in 0..2} :
      \A i, j \in DOMAIN l : i # j => l[i].id # l[j].id }

\* The Partial<VaultConfig> handed to updateVault.
Updates ==
  { [name |-> NameAB],
    [isValid |-> FALSE, lastAccessed |-> 1],
    [id |-> 3, name |-> NameAB],
    [id |-> 1] }

MapHas(m, id) == \E i \in DOMAIN m : m[i].id = id

MapGet(m, id) == m[CHOOSE i \in DOMAIN m : m[i].id = id]

\* Map.prototype.set
MapSet(m, id, v) ==
  IF MapHas(m, id)
    THEN [i \in DOMAIN m |-> IF m[i].id = id THEN v ELSE m[i]]
    ELSE Append(m, v)

\* Variant of MergedId: the id of the updates wins.
MergedId_FromUpdates(vault, updates) ==
  IF "id" \in DOMAIN updates THEN updates.id ELSE vault.id

\* id: vault.id, the last member of the object literal
MergedId(vault, updates) == vault.id

\* { ...vault, ...updates, id: vault.id }
Merged(vault, updates) ==
  [k \in DOMAIN vault \cup DOMAIN updates |->
     IF k = "id" THEN MergedId(vault, updates)
     ELSE IF k \in DOMAIN updates THEN updates[k]
     ELSE vault[k]]

\* The value of a call that returns a config or null: <<config>> or <<>>.
updateVault(vaultId, updates) ==
  /\ IF MapHas(vaultCache, vaultId)
       THEN LET updatedVault == Merged(MapGet(vaultCache, vaultId), updates)
            IN  /\ vaultCache' = MapSet(vaultCache, vaultId, updatedVault)
                /\ ret' = Returned("updateVault",
                                   [vaultId |-> vaultId, updates |-> updates],
                                   <<updatedVault>>)
       ELSE /\ vaultCache' = vaultCache
            /\ ret' = Returned("updateVault",
                               [vaultId |-> vaultId, updates |-> updates], <<>>)
  /\ UNCHANGED <<fs, activeOperations, call, faults, cancels, batch, sweep,
                 recentDestinations, now>>

RECURSIVE SetAll(_, _)
SetAll(m, vaults) ==
  IF vaults = <<>> THEN m
  ELSE SetAll(MapSet(m, Head(vaults).id, Head(vaults)), Tail(vaults))

loadVaults(vaults) ==
  /\ vaultCache' = SetAll(<<>>, vaults)
  /\ ret' = Returned("loadVaults", [vaults |-> vaults], <<>>)
  /\ UNCHANGED <<fs, activeOperations, call, faults, cancels, batch, sweep,
                 recentDestinations, now>>

NextRegistry ==
  \/ \E vaults \in ConfigLists : loadVaults(vaults)
  \/ \E vaultId \in VaultIds, updates \in Updates : updateVault(vaultId, updates)

\* The index after construction: empty.
InitRegistry ==
  /\ fs = <<>>
  /\ activeOperations = <<>>
  /\ call = [c \in Calls |-> IdleCall]
  /\ faults = 0
  /\ cancels = 0
  /\ OthersIdle

SpecRegistry == InitRegistry /\ [][NextRegistry]_vars

\* C26: updateVault(id, updates) on a known id stores the old config merged
\* with the updates under the original id, also when the updates carry
\* another id, and returns it; on an unknown id it returns null and leaves
\* the index as it was.  loadVaults(list) leaves in the index exactly the
\* configs of the list, each under its id, and nothing from before.
RegistryUpdateAndLoad ==
  [][ /\ ret'.fn = "updateVault" =>
           LET id == ret'.arg.vaultId
               u == ret'.arg.updates
           IN  IF MapHas(vaultCache, id)
                 THEN LET old == MapGet(vaultCache, id)
                          new == MapGet(vaultCache', id)
                      IN  /\ MapHas(vaultCache', id)
                          /\ ret'.value = <<new>>
                          /\ new.id = id
                          /\ DOMAIN new = DOMAIN old \cup DOMAIN u
                          /\ \A k \in DOMAIN u \ {"id"} : new[k] = u[k]
                          /\ \A k \in DOMAIN old \ DOMAIN u : new[k] = old[k]
                          /\ Len(vaultCache') = Len(vaultCache)
                          /\ \A i \in DOMAIN vaultCache :
                               vaultCache[i].id # id => vaultCache'[i] = vaultCache[i]
                 ELSE ret'.value = <<>> /\ vaultCache' = vaultCache
      /\ ret'.fn = "loadVaults" =>
           LET vaults == ret'.arg.vaults
           IN  /\ Len(vaultCache') = Len(vaults)
               /\ \A i \in DOMAIN vaults :
                    /\ MapHas(vaultCache', vaults[i].id)
                    /\ MapGet(vaultCache', vaults[i].id) = vaults[i]
    ]_vars

\* updateVault was handed another id for a vault of the index and the vault
\* is still stored under its own id, with the new name.
UpdateKeepsIdWitness ==
  /\ ret.fn = "updateVault"
  /\ ret.arg.vaultId = 1 /\ ret.arg.updates = [id |-> 3, name |-> NameAB]
  /\ Len(vaultCache) = 2
  /\ MapHas(vaultCache, 1) /\ ~MapHas(vaultCache, 3)
  /\ MapGet(vaultCache, 1).name = NameAB
  /\ ret.value = <<MapGet(vaultCache, 1)>>

----------------------------------------------------------------------------
\* FileMover.cleanupOldBackups: the sweep of the backup directory.  Paths are
\* relative to tempDir, names are sequences of code units, a node carries its
\* modification time in milliseconds.

\* "teleporter_backup_"
BackupPrefix ==
  <<116, 101, 108, 101, 112, 111, 114, 116, 101, 114, 95, 98, 97, 99, 107,
    117, 112, 95>>

maxAge == 86400000

TempDir == <<>>

\* Three backups and "teleporter_backup", a file that is none.
SweepNames ==
  {BackupPrefix \o <<49>>, BackupPrefix \o <<50>>, BackupPrefix \o <<51>>,
   SubSeq(BackupPrefix, 1, Len(BackupPrefix) - 1)}

\* String.prototype.startsWith
startsWithString(name, prefix) ==
  Len(name) >= Len(prefix) /\ SubSeq(name, 1, Len(prefix)) = prefix

\* The backup directory: each file absent, or last written at time 0 or 1.
SweepFs ==
  UNION { [{Append(TempDir, n) : n \in S}
             -> {[kind |-> "file", data |-> "", mtime |-> t] : t \in 0..1}] :
            S \in SUBSET SweepNames }

InitSweep ==
  /\ fs \in SweepFs
  /\ activeOperations = <<>>
  /\ call = [c \in Calls |-> IdleCall]
  /\ faults = 0
  /\ cancels = 0
  /\ batch = IdleBatch
  /\ sweep = IdleSweep
  /\ ret = NoReturn
  /\ vaultCache = <<>>
  /\ recentDestinations = <<>>
  /\ now \in {maxAge, maxAge + 1}

\* now - stats.mtime.getTime() > maxAge
TooOld(node, t) == t - node.mtime > maxAge

\* Variant of SweepCatch: the error leaves cleanupOldBackups.
SweepCatch_Rethrow(s) == [s EXCEPT !.pc = "rejected", !.threw = TRUE]

\* catch (error) { console.error(...) }
SweepCatch(s) == [s EXCEPT !.pc = "done", !.threw = TRUE]

\* The loop from entry i up to its next await, its end or its catch; bad is
\* the entry whose statSync throws (0: none).
RECURSIVE SweepLoop(_, _, _, _)
SweepLoop(f, s, i, bad) ==
  IF i > Len(s.files) THEN [s EXCEPT !.pc = "done", !.i = i]
  ELSE LET filePath == s.files[i]
       IN  IF startsWithString(filePath[Len(filePath)], BackupPrefix)
             THEN IF i = bad \/ ~existsSync(f, filePath)
                    THEN SweepCatch([s EXCEPT !.i = i])
                  ELSE IF TooOld(f[filePath], s.now)
                    THEN [s EXCEPT !.pc = "deleting", !.i = i]
                  ELSE SweepLoop(f, s, i + 1, bad)
             ELSE SweepLoop(f, s, i + 1, bad)

\* The entry bad is one whose statSync the loop gets to, and a fault is left.
StatFault(s, bad) ==
  bad = 0 \/ (faults < MaxFaults /\ s.threw /\ s.i = bad)

\* The call up to its first await.
cleanupOldBackups ==
  /\ sweep.pc = "idle"
  /\ \E readdirThrows \in BOOLEAN, first \in SweepNames,
        bad \in 0..Cardinality(SweepNames) :
       LET started == [IdleSweep EXCEPT !.now = now, !.before = fs,
                         !.files = EntriesInOrder(fs, TempDir, first)]
           next == IF readdirThrows THEN SweepCatch(started)
                   ELSE SweepLoop(fs, started, 1, bad)
       IN  /\ readdirThrows => faults < MaxFaults /\ bad = 0
           /\ ~readdirThrows => StatFault(next, bad)
           /\ sweep' = next
           /\ faults' = IF readdirThrows \/ bad # 0 THEN faults + 1 ELSE faults
  /\ UNCHANGED <<fs, activeOperations, call, cancels, batch, ret, vaultCache,
                 recentDestinations, now>>

\* await this.deleteFile(filePath) settles and the loop goes on.
cleanupDelete ==
  /\ sweep.pc = "deleting"
  /\ \E unlinkFails \in BOOLEAN, bad \in 0..Cardinality(SweepNames) :
       LET filePath == sweep.files[sweep.i]
           next == IF unlinkFails THEN SweepCatch(sweep)
                   ELSE SweepLoop(unlink(fs, filePath), sweep, sweep.i + 1, bad)
       IN  /\ unlinkFails => faults < MaxFaults /\ bad = 0
           /\ ~unlinkFails => StatFault(next, bad) /\ (bad = 0 \/ bad > sweep.i)
           /\ fs' = IF unlinkFails THEN fs ELSE unlink(fs, filePath)
           /\ sweep' = next
           /\ faults' = IF unlinkFails \/ bad # 0 THEN faults + 1 ELSE faults
  /\ UNCHANGED <<activeOperations, call, cancels, batch, ret, vaultCache,
                 recentDestinations, now>>

\* The promise of cleanupOldBackups resolves.
cleanupReturn ==
  /\ sweep.pc = "done"
  /\ sweep' = [sweep EXCEPT !.pc = "idle"]
  /\ ret' = Returned("cleanupOldBackups", [threw |-> sweep.threw], <<>>)
  /\ UNCHANGED <<fs, activeOperations, call, faults, cancels, batch, vaultCache,
                 recentDestinations, now>>

NextSweep == cleanupOldBackups \/ cleanupDelete \/ cleanupReturn

SpecSweep == InitSweep /\ [][NextSweep]_vars

\* The backups of the directory that were older than the retention window
\* when the sweep started.
OldBackups(f, t) ==
  {q \in DOMAIN f : /\ startsWithString(q[Len(q)], BackupPrefix)
                     /\ TooOld(f[q], t)}

SweepEnded == sweep.pc \in {"done", "rejected"}

----------------------------------------------------------------------------
\* settings.recentDestinations: the list addRecentDestination keeps and
\* saves, and getRecentDestinations reads.  A path is a number here, the
\* clock now counts the calls: every call reads a later Date.now().

RecentCap == 20

RecentShown == 5

\* The k-th destination: vaults 1 and 2 by turns, so that a vault shares
\* its paths with the other one.
Destination(k) == [vaultId |-> 1 + (k % 2), path |-> (k + 1) \div 2]

\* The destinations of the list, as vaultId/path pairs.
PairOf(d) == [vaultId |-> d.vaultId, path |-> d.path]

\* Variant of MostRecent: the entry with the least timestamp.
MostRecent_Oldest(list) ==
  CHOOSE i \in DOMAIN list :
    /\ \A j \in DOMAIN list : list[i].timestamp <= list[j].timestamp
    /\ \A j \in 1..(i - 1) : list[j].timestamp # list[i].timestamp

\* The entry (a, b) => b.timestamp - a.timestamp puts first: the first one
\* of those with the greatest timestamp.
MostRecent(list) ==
  CHOOSE i \in DOMAIN list :
    /\ \A j \in DOMAIN list : list[i].timestamp >= list[j].timestamp
    /\ \A j \in 1..(i - 1) : list[j].timestamp # list[i].timestamp

\* .sort((a, b) => b.timestamp - a.timestamp)
RECURSIVE sortByTimestamp(_)
sortByTimestamp(list) ==
  IF list = <<>> THEN <<>>
  ELSE LET i == MostRecent(list)
       IN  <<list[i]>>
           \o sortByTimestamp(SubSeq(list, 1, i - 1) \o SubSeq(list, i + 1, Len(list)))

\* .slice(0, n)
slice(list, n) == SubSeq(list, 1, IF Len(list) < n THEN Len(list) ELSE n)

getRecentDestinations(list, vaultId) ==
  LET shown == slice(sortByTimestamp(SelectSeq(list, LAMBDA d : d.vaultId = vaultId)),
                     RecentShown)
  IN  [i \in DOMAIN shown |-> shown[i].path]

\* The list addRecentDestination(vaultId, path) saves at time t.
AddedRecent(list, vaultId, path, t) ==
  LET kept == SelectSeq(list, LAMBDA d : ~(d.vaultId = vaultId /\ d.path = path))
      pushed == Append(kept, [vaultId |-> vaultId, path |-> path, timestamp |-> t])
  IN  IF Len(pushed) > RecentCap
        THEN slice(sortByTimestamp(pushed), RecentCap)
        ELSE pushed

\* The destinations a call is made for: the next one that was never used, or
\* the first or the last one of the list.
RecentInputs ==
  LET IndexOf(d) == IF d.vaultId = 2 THEN 2 * d.path - 1 ELSE 2 * d.path
      ks == {IndexOf(recentDestinations[i]) : i \in DOMAIN recentDestinations}
      Introduced == IF ks = {} THEN 0 ELSE CHOOSE k \in ks : \A j \in ks : j <= k
  IN  {Destination(Introduced + 1)}
      \cup (IF recentDestinations # <<>> /\ now - Introduced < MaxReadds
              THEN {PairOf(recentDestinations[1]),
                    PairOf(recentDestinations[Len(recentDestinations)])}
              ELSE {})

addRecentDestination(vaultId, path) ==
  /\ now < MaxNow
  /\ now' = now + 1
  /\ recentDestinations' = AddedRecent(recentDestinations, vaultId, path, now')
  /\ ret' = Returned("addRecentDestination",
                     [vaultId |-> vaultId, path |-> path], <<>>)
  /\ UNCHANGED <<fs, activeOperations, call, faults, cancels, batch, sweep,
                 vaultCache>>

addRecentDestinationCall ==
  \E d \in RecentInputs : addRecentDestination(d.vaultId, d.path)

getRecentDestinationsCall ==
  \E vaultId \in 1..2 :
    /\ ret' = Returned("getRecentDestinations", [vaultId |-> vaultId],
                       getRecentDestinations(recentDestinations, vaultId))
    /\ UNCHANGED <<fs, activeOperations, call, faults, cancels, batch, sweep,
                   vaultCache, recentDestinations, now>>

NextRecent ==
  \/ addRecentDestinationCall
  \/ getRecentDestinationsCall

SpecRecent == InitRegistry /\ [][NextRecent]_vars

Timestamps(list) == {list[i].timestamp : i \in DOMAIN list}

Pairs(list) == {PairOf(list[i]) : i \in DOMAIN list}

OnePerPair(list) ==
  \A i, j \in DOMAIN list : i # j => PairOf(list[i]) # PairOf(list[j])

\* C30 as stated: the saved list has at most 20 entries, at most one for a
\* vaultId/path pair, and is ordered most recent first.
RecentNewestFirst ==
  /\ Len(recentDestinations) <= RecentCap
  /\ OnePerPair(recentDestinations)
  /\ \A i, j \in DOMAIN recentDestinations :
       i < j => recentDestinations[i].timestamp >= recentDestinations[j].timestamp

\* C30, amended: after every addRecentDestination the saved list has at most
\* 20 entries and at most one for a vaultId/path pair, and holds the
\* destination just added with the latest timestamp; nothing is dropped
\* unless the list would exceed 20 entries, and then the entries dropped
\* are older than every entry kept.  getRecentDestinations lists the paths
\* of a vault most recent first.
RecentBounded ==
  [][ /\ recentDestinations' # recentDestinations =>
           LET old == recentDestinations
               new == recentDestinations'
               added == CHOOSE d \in Pairs(new) :
                          \E i \in DOMAIN new :
                            PairOf(new[i]) = d /\ new[i].timestamp = now'
               all == Pairs(old) \cup {added}
           IN  /\ Len(new) <= RecentCap
               /\ OnePerPair(new)
               /\ \E i \in DOMAIN new : new[i].timestamp = now'
               /\ \A i \in DOMAIN new : new[i].timestamp <= now'
               /\ Pairs(new) \subseteq all
               /\ Cardinality(all) <= RecentCap => Pairs(new) = all
               /\ Len(new) = IF Cardinality(all) <= RecentCap
                               THEN Cardinality(all) ELSE RecentCap
               /\ \A i \in DOMAIN old :
                    IF PairOf(old[i]) \in Pairs(new) \ {added}
                      THEN \E j \in DOMAIN new : new[j] = old[i]
                      ELSE PairOf(old[i]) = added
                           \/ \A j \in DOMAIN new :
                                old[i].timestamp < new[j].timestamp
      /\ ret'.fn = "getRecentDestinations" =>
           LET paths == ret'.value
               mine == {i \in DOMAIN recentDestinations :
                          recentDestinations[i].vaultId = ret'.arg.vaultId}
           IN  /\ Len(paths) = IF Cardinality(mine) < RecentShown
                                 THEN Cardinality(mine) ELSE RecentShown
               /\ \A k \in DOMAIN paths :
                    \E i \in mine :
                      /\ recentDestinations[i].path = paths[k]
                      /\ Cardinality({j \in mine :
                             recentDestinations[j].timestamp
                               > recentDestinations[i].timestamp}) = k - 1
    ]_vars

\* The 21st destination was added: the list holds 20 entries, the oldest
\* one is gone, and the list, sorted by that call, got a later entry at its
\* end by the next call.
RecentCapWitness ==
  /\ Len(recentDestinations) = RecentCap
  /\ now = RecentCap + 2
  /\ Destination(1) \notin Pairs(recentDestinations)
  /\ recentDestinations[RecentCap].timestamp = now
  /\ recentDestinations[1].timestamp = now - 1

----------------------------------------------------------------------------
\* moveFile with and without the onProgress argument: the call is made with
\* a callback, and then once more without one, on the files as they were
\* and with the same filesystem call failing.

\* The awaited filesystem call that fails when it is reached (pc of the
\* call), or none.
FaultPlans ==
  {"none", "readFileContent", "getFileStats", "createBackup", "ensureDirectory",
   "writeFileContent", "preserveFileMetadata", "hashSource", "hashTarget",
   "deleteSource", "deleteBackup", "rbDeleteTarget", "rbDeleteBackup"}

\* What the first call has left: nothing yet.
NoOutcome ==
  [done |-> FALSE, result |-> IdleCall.result, files |-> <<>>,
   activeOperations |-> <<>>, faults |-> 0]

moveFileWithCallback ==
  /\ ret = NoReturn
  /\ call[1].pc = "idle"
  /\ \E file \in Files, targetFolderPath \in TargetFolders, options \in MoveOptions,
        onProgress \in {"returns", "throws"}, plan \in FaultPlans :
       /\ call' = [call EXCEPT ![1] =
                     StartedOn(fs, 1, "moveFile", file, targetFolderPath, options,
                               onProgress)]
       /\ ret' = Returned("moveFile", [files |-> fs, plan |-> plan], NoOutcome)
  /\ activeOperations' = Append(activeOperations, 1)
  /\ UNCHANGED <<fs, faults, cancels, batch, sweep, vaultCache,
                 recentDestinations, now>>

\* The first call has returned; the same call without the callback, on the
\* files the first call found.
moveFileWithoutCallback ==
  /\ call[1].pc = "done"
  /\ call[2].pc = "idle"
  /\ ret' = [ret EXCEPT !.value =
               [done |-> TRUE, result |-> call[1].result, files |-> fs,
                activeOperations |-> activeOperations, faults |-> faults]]
  /\ fs' = ret.arg.files
  /\ faults' = 0
  /\ call' = [call EXCEPT ![2] =
                StartedOn(ret.arg.files, 2, "moveFile", call[1].file,
                          call[1].targetFolderPath, call[1].options, "none")]
  /\ activeOperations' = Append(activeOperations, 2)
  /\ UNCHANGED <<cancels, batch, sweep, vaultCache, recentDestinations, now>>

\* A step of one of the two calls; a filesystem call is made to fail only
\* where the plan says so.
PlannedStep ==
  \E c \in Calls :
    /\ TransferStep(c)
    /\ faults' # faults => call[c].pc = ret.arg.plan

NextProgress == moveFileWithCallback \/ moveFileWithoutCallback \/ PlannedStep

SpecProgress == Init /\ [][NextProgress]_vars

\* The files of f without the backups, and the backup of call c.
Visible(f, c) ==
  LET backups == {BackupPathOf(d, call[c].file) : d \in Calls}
  IN  [files |-> [q \in DOMAIN f \ backups |-> f[q]],
       backup |-> IF existsSync(f, BackupOf(c)) THEN <<f[BackupOf(c)]>> ELSE <<>>]

\* Both calls have returned and the same filesystem calls failed in both:
\* the MoveResult, the files (the backup under the name of its call) and
\* the index of operations are the same.
SameTransfer(callbacks) ==
  /\ call[2].pc = "done"
  /\ call[1].onProgress \in callbacks
  /\ faults = ret.value.faults
  => /\ call[2].result = ret.value.result
     /\ activeOperations = ret.value.activeOperations
     /\ Visible(fs, 2) = Visible(ret.value.files, 1)

----------------------------------------------------------------------------
\* The loop of getAvailableFilename (Spec).

\* "<base> <k><ext>" in the directory of p
Numbered(p, k) ==
  path_join(path_dirname(p),
            <<N(path_basename(p).base \o " " \o ToString(k), path_extname(p))>>)

\* C32: on every vault the transfers produce getAvailableFilename comes to
\* an end, after no more rounds than the vault has entries, and for a path
\* that is taken it returns "<base> <k><ext>" in the directory of the path
\* for the least k >= 1 whose name is free.
AvailableIsSmallest ==
  \A p \in ProbePaths :
    fileExists(fs, targetVault, p) =>
      \E k \in 1..Cardinality(DOMAIN fs) :
        /\ getAvailableFilename(fs, targetVault, p) = Numbered(p, k)
        /\ ~fileExists(fs, targetVault, Numbered(p, k))
        /\ \A j \in 1..(k - 1) : fileExists(fs, targetVault, Numbered(p, j))

\* Draft.md and "Draft 1.md" are taken in the root of the vault and the
\* loop, asked for Draft.md, returns "Draft 2.md".
SmallestWitness ==
  /\ fileExists(fs, targetVault, <<N("Draft", ".md")>>)
  /\ fileExists(fs, targetVault, <<N("Draft 1", ".md")>>)
  /\ getAvailableFilename(fs, targetVault, <<N("Draft", ".md")>>)
       = <<N("Draft 2", ".md")>>

----------------------------------------------------------------------------
\* getStatistics (SpecConc): what a task that runs between two steps of the
\* calls is told.

\* Variant of CountStatus: every operation record is counted, in the index
\* or not.
CountStatus_All(ops, status) ==
  Cardinality({c \in Calls : call[c].operation.status = status})

\* The loop over activeOperations.values()
RECURSIVE CountStatus(_, _)
CountStatus(ops, status) ==
  IF ops = <<>> THEN 0
  ELSE (IF call[Head(ops)].operation.status = status THEN 1 ELSE 0)
       + CountStatus(Tail(ops), status)

getStatistics ==
  [active |-> Len(activeOperations),
   completed |-> CountStatus(activeOperations, "success"),
   failed |-> CountStatus(activeOperations, "failed")]

\* C33: getStatistics reports as active the number of operations in the
\* index and as completed and failed the numbers of those of them whose
\* status is success and failed; operations that have left the index are
\* not counted; completed + failed <= active.
StatisticsCountTracked ==
  LET s == getStatistics
  IN  /\ s.active = Cardinality({c \in Calls : ~Untracked(c)})
      /\ s.completed =
           Cardinality({c \in Calls : ~Untracked(c) /\ call[c].operation.status = "success"})
      /\ s.failed =
           Cardinality({c \in Calls : ~Untracked(c) /\ call[c].operation.status = "failed"})
      /\ s.completed + s.failed <= s.active

\* One operation is in the index, failed and being rolled back, and another
\* one, cancelled, has status failed and is not counted.
StatisticsWitness ==
  /\ getStatistics = [active |-> 1, completed |-> 0, failed |-> 1]
  /\ \E c \in Calls :
       Untracked(c) /\ call[c].cancelled /\ call[c].operation.status = "failed"

----------------------------------------------------------------------------
\* Overlapping transfers to one folder (SpecConc).

\* The call's strategy never answers a conflict with the proposed path.
Renaming(c) == call[c].options.conflictStrategy \in {"rename", "ask"}

\* C34: under strategy rename or ask, the write of a transfer never
\* replaces a file that is at the resolved target path when the write is
\* made, whatever another moveFile call with a source of the same base
\* name and the same target folder does in between.
RenameNeverOverwrites ==
  [][\A c \in Calls :
       (/\ Renaming(c)
        /\ call[c].pc = "writeFileContent"
        /\ ~call[c].wrote /\ call'[c].wrote)
       => ~existsSync(fs, TargetFullPath(call[c]))]_vars

----------------------------------------------------------------------------
\* What rollback takes from the target vault (Spec).

RollbackPcs == {"rbDeleteTarget", "rbRestore", "rbDeleteBackup", "rbReturn"}

InTargetVault(p) ==
  /\ Len(p) >= Len(targetVault.path)
  /\ SubSeq(p, 1, Len(targetVault.path)) = targetVault.path

\* C35: a step of rollback removes or changes in the target vault nothing
\* but the file the failed transfer wrote itself: the target folder, a file
\* that was at the target folder's path and a file that was at the proposed
\* path before the transfer stay as they were.
RollbackSparesTargetVault ==
  [][\A c \in Calls :
       call[c].pc \in RollbackPcs =>
         \A p \in DOMAIN fs :
           (InTargetVault(p) /\ (p \notin DOMAIN fs' \/ fs'[p] # fs[p]))
           => (p = TargetFullPath(call[c]) /\ call[c].wrote)]_vars

----------------------------------------------------------------------------
\* The backup of a failed transfer (Spec).

\* The unlink of the backup was tried by rollback and failed.
BackupDeleteFailed(c) ==
  "rollback" \in call[c].failed /\ ~call[c].rbDeleteFailed

\* C36: a call with deleteOriginal that failed in the write or the verify
\* stage, with its backup made and its source never deleted, has left no
\* backup of its operation in the temp directory when it returns, unless
\* the unlink of the backup failed.
NoBackupLeak ==
  \A c \in Calls :
    (/\ Done(c) /\ ~call[c].result.success
     /\ call[c].options.deleteOriginal
     /\ call[c].failedAt \in {"writeFileContent", "hashSource", "hashTarget"}
     /\ call[c].backupPath # NoPath /\ ~call[c].sourceDeleted
     /\ ~BackupDeleteFailed(c))
    => ~existsSync(fs, BackupOf(c))

----------------------------------------------------------------------------
\* A cancelled operation (SpecConc).

\* C37: from the moment cancelOperation has marked an operation failed its
\* status is failed, and the moveFile call of that operation does not
\* return success = true, at whatever step of the call the cancel came.
CancelledStaysFailed ==
  \A c \in Calls :
    call[c].cancelled =>
      /\ call[c].operation.status = "failed"
      /\ ~(Done(c) /\ call[c].result.success)

----------------------------------------------------------------------------
\* What getStatistics can tell between two steps (SpecConc).

\* C38: between any two steps of the calls getStatistics reports no
\* completed operation, since the status success is set and the record
\* leaves the index in one step; and every operation it reports as failed
\* belongs to a call whose rollback has not yet ended.
StatisticsBetweenSteps ==
  /\ getStatistics.completed = 0
  /\ getStatistics.failed > 0 =>
       \E c \in Calls : ~Untracked(c) /\ call[c].pc \in RollbackPcs
  /\ \A c \in Calls :
       ~Untracked(c) /\ call[c].operation.status = "failed"
       => call[c].pc \in RollbackPcs

\* Two operations are in the index, one of them failed and about to unlink
\* the rollback target, the other one past its write and not failed.
StatisticsBetweenStepsWitness ==
  /\ getStatistics = [active |-> 2, completed |-> 0, failed |-> 1]
  /\ \E c, d \in Calls :
       /\ call[c].pc = "rbDeleteTarget" /\ call[c].operation.status = "failed"
       /\ call[d].operation.status = "pending" /\ call[d].wrote

====
